---- MODULE Spec2Model ----
(***************************************************************************)
(* The virtual machine of anotherustyworld: the engine loop                *)
(* (src/src/engine.rs), the 64 cooperative channels (src/src/channel.rs)   *)
(* and the opcode handlers and scheduler of src/src/vm.rs.                 *)
(*                                                                         *)
(* The bytecode segment is an input: the opcode found at the cursor and    *)
(* its operand bytes are chosen by \E from small sets, so a behaviour of   *)
(* Spec stands for the run of some bytecode.  An opcode handler, together  *)
(* with the opcode fetch and the loop test of Vm::run_channel that follow  *)
(* and precede it, is one action.                                          *)
(***************************************************************************)
EXTENDS Integers, Sequences, FiniteSets, TLC

\* ------------------------------------------------------------- bounds
\* The channel array has 64 entries (vm.rs:25); the model keeps this many.
NUM_CHANNELS == 2
\* Length in bytes of every part's bytecode segment.
BytecodeLen == 10
\* Deepest call stack explored (Vec<u64> is unbounded).
MaxStack == 1
\* Opcodes executed in one run of the engine.
MaxOps == 4
\* Rows of a video page (200 in video.rs:14) and bytes of a row (160).
HEIGHT == 2
HalfWidth == 2
\* Opcodes executed in one run of the engine by bytecode that draws.
MaxVideoOps == 3
\* Polygons drawn in one run of the engine.
MaxDraws == 1
\* Largest unpacked size a packed entry declares.
MaxUnpacked == 2
\* Scan lines filled in one run.
MaxLines == 1
\* Opcodes executed in one run of the engine by bytecode that computes, and
\* by bytecode that branches on a comparison.
MaxArithOps == 3
MaxCondOps == 1

\* ------------------------------------------------- values of the program
Channels == 0 .. (NUM_CHANNELS - 1)

\* channel.rs:2-5  enum ProcessCounter { Valid(usize), Invalid }
Invalid == <<"Invalid">>
Valid(p) == <<"Valid", p>>
IsValid(pc) == pc[1] = "Valid"

\* Option<ProcessCounter> of Channel::next_pc, Option<GamePart> of part_to_load
None == <<"None">>
Some(x) == <<"Some", x>>

\* The conversion treating 0xFFFF alone as the sentinel.
ProcessCounterFrom_one_sentinel(value) ==
    IF value = 65535 THEN Invalid ELSE Valid(value)

\* channel.rs:7-14  impl From<u64> for ProcessCounter
ProcessCounterFrom(value) == IF value >= 65534 THEN Invalid ELSE Valid(value)

\* channel.rs:31-39  Channel::default
ChannelDefault == [state |-> "Dead", pc |-> Invalid, next_pc |-> None]

\* Channel::reset forgetting to clear the staged next_pc.
Reset_keeps_next_pc(ch) == [state |-> "Dead", pc |-> Invalid, next_pc |-> ch.next_pc]

\* channel.rs:42-46  Channel::reset
Reset(ch) == [state |-> "Dead", pc |-> Invalid, next_pc |-> None]

\* channel.rs:48-54  Channel::set_pc
SetPc(ch, pc) ==
    [ch EXCEPT !.pc = pc,
               !.state = IF IsValid(pc) THEN "Ready" ELSE "Dead"]

\* apply_next_pc leaving the staged value in its slot.
ApplyNextPc_kept(ch) ==
    IF ch.next_pc # None THEN SetPc(ch, ch.next_pc[2]) ELSE ch

\* channel.rs:56-61  Channel::apply_next_pc
ApplyNextPc(ch) ==
    IF ch.next_pc # None
    THEN [SetPc(ch, ch.next_pc[2]) EXCEPT !.next_pc = None]
    ELSE ch

\* channel.rs:63-65  Channel::yield_control
YieldControl(ch, execution_pc) == SetPc(ch, execution_pc)

\* parts.rs:16-26  the values GamePart::try_from_primitive accepts
IsGamePart(id) == id >= 16000 /\ id <= 16009

\* resource.rs  NUM_MEM_ENTRIES
NUM_MEM_ENTRIES == 146

\* UPDATE_MEM_LIST taking the id NUM_MEM_ENTRIES for a memory entry.
IsMemEntry_inclusive(id) == id >= 1 /\ id <= NUM_MEM_ENTRIES

\* vm.rs:398  the arm 1..NUM_MEM_ENTRIES of UPDATE_MEM_LIST
IsMemEntry(id) == id >= 1 /\ id < NUM_MEM_ENTRIES

\* ------------------------------------------------ inputs (operand bytes)
\* u16 operands of SET_VEC, JMP and CALL: the first offset, the last offset
\* below the sentinel range, and the first sentinel value (0xFFFE).
PcOperands == {0, 65533, 65534}
\* u16 operands of SET_VEC: those, and the second sentinel value (0xFFFF).
VecOperands == PcOperands \cup {65535}
\* u8 channel operands: NUM_CHANNELS stands for every byte past the array.
ChannelOperands == 0 .. NUM_CHANNELS
\* u8 action operand of RESET_THREADS.
ActionOperands == {0, 1, 2}
\* u16 operand of UPDATE_MEM_LIST.
ResourceOperands == {0, 1, 146, 16000, 16002, 16009, 16010}
\* variables the model tracks, and the immediates MOV_CONST stores.
VarIds == {228}
VarValues == {7}

VARIABLES
    variables,           \* Vm::variables, restricted to VarIds
    channels,            \* Vm::channels
    running_channel_id,  \* Vm::running_channel_id
    stack,               \* Vm::stack
    bytecode_pos,        \* position of context.loaded_part.bytecode
    loaded_part,         \* the part whose segments context.loaded_part holds
    loaded_asset,        \* keys of context.loaded_asset.assets
    part_to_load,        \* context.part_to_load
    phase,               \* where Engine::run is
    channel_id,          \* loop variable of Vm::host_frame
    result,              \* "Ok", an error kind, or "Panic"
    ops_done,            \* opcodes fetched so far (bounded by MaxOps)
    \* history, written but never read by the actions' guards
    last_op,             \* the step just taken
    last_arg,            \* the u16 operand of the UPDATE_MEM_LIST just run
    last_vec,            \* per channel, the SET_VECs of the frame
    kill_mark,           \* per channel, KILL_THREAD history
    reset_mark,          \* per channel not yet visited in the tick, the state a RESET_THREADS set
    yield_mark,          \* per channel with nothing staged, the offset its PAUSE_THREAD left, until it is visited or targeted
    dispatched,          \* channels dispatched in the current tick
    part_changed,        \* the last update_part loaded a part
    req_part,            \* the last part request since the last load
    stack_dropped,       \* entries the last dispatch cleared from the stack
    \* Video (src/src/video.rs) and Renderer (src/src/renderer.rs)
    pages,               \* Video::pages
    work_buffer,         \* Video::work_buffer
    front_buffer,        \* Video::front_buffer
    back_buffer,         \* Video::back_buffer
    palette_req,         \* Video::palette_req
    palette,             \* Renderer::palette, as the palette number loaded
    shown,               \* the page Renderer::update_display drew last
    pal_hist,            \* history: SET_PALETTEs pending, or consumed by the last blit
    \* history of the drawing calls
    last_draw,           \* the last fill_polygon or line fill: its inputs, what draw_point left
    bg,                  \* the polygon segment the last part load handed to copy_bg
    \* Unpacker (src/src/bank.rs)
    unpacker,            \* where Unpacker::unpack is, ctx.datasize, the output, the last token
    \* history of the arithmetic opcodes
    jnz_loop,            \* the run of JNZs on one variable: its first value, the jumps taken
    \* the host: the thread's sleep and the process
    slept,               \* the last BLIT_FRAME_BUFFER: the time elapsed, the sleep it asked for
    exit_status          \* the status the process ended with, None while it runs

vars == <<variables, channels, running_channel_id, stack, bytecode_pos,
          loaded_part, loaded_asset, part_to_load, phase, channel_id, result,
          ops_done, last_op, last_arg, last_vec, kill_mark, reset_mark,
          yield_mark, dispatched,
          part_changed, req_part, stack_dropped, pages, work_buffer,
          front_buffer, back_buffer, palette_req, palette, shown,
          pal_hist, last_draw, bg, unpacker, jnz_loop, slept, exit_status>>

video == <<pages, work_buffer, front_buffer, back_buffer, palette_req,
           palette, shown, pal_hist>>

prog == <<variables, channels, running_channel_id, stack, bytecode_pos,
          loaded_part, loaded_asset, part_to_load>>

\* What the scheduler and the page opcodes leave alone.
ext == <<last_draw, bg, unpacker, jnz_loop, slept, exit_status>>

hist == <<last_vec, kill_mark, reset_mark, yield_mark, dispatched, part_changed,
          req_part>>

\* No SET_VEC has targeted the channel in this frame.
NoVec == [last |-> None, writes |-> 0, overridden |-> FALSE]

\* `as i16` of an u16, and the i16 an overflowing result wraps to
ToI16(value) == IF value >= 32768 THEN value - 65536 ELSE value
Wrap16(value) == ((value + 32768) % 65536) - 32768
FitsI16(value) == value >= 0 - 32768 /\ value <= 32767

\* History: no BLIT_FRAME_BUFFER has run.
NoSleep == [elapsed |-> 0, ms |-> 0, panic |-> FALSE]

\* One more opcode is fetched.
CountOp == ops_done' = ops_done + 1

\* -------------------------------------------------------------- video
\* video.rs:14-16  the page geometry: HEIGHT rows of WIDTH pixels, two
\* pixels to a byte.  HalfWidth is the number of bytes of a row.
WIDTH == 2 * HalfWidth
VID_PAGE_SIZE == (HEIGHT * WIDTH) \div 2
PageIndices == 0 .. 3
PageBytes == 0 .. VID_PAGE_SIZE - 1

\* Bitwise and / or of two naturals.
RECURSIVE BitAnd(_, _)
BitAnd(a, b) ==
    IF a = 0 \/ b = 0 THEN 0
    ELSE (IF a % 2 = 1 /\ b % 2 = 1 THEN 1 ELSE 0)
         + 2 * BitAnd(a \div 2, b \div 2)

RECURSIVE BitOr(_, _)
BitOr(a, b) ==
    IF a = 0 THEN b
    ELSE IF b = 0 THEN a
    ELSE (IF a % 2 = 1 \/ b % 2 = 1 THEN 1 ELSE 0)
         + 2 * BitOr(a \div 2, b \div 2)

Abs(x) == IF x < 0 THEN -x ELSE x

\* video.rs:41-46  enum PageId
Numbered(n) == <<"Numbered", n>>
Front == <<"Front">>
Back == <<"Back">>
IsNumbered(page_id) == page_id[1] = "Numbered"

\* PageId::from keeping the raw number of every byte that is no alias.
PageIdFrom_unchecked(raw_page_id) ==
    IF raw_page_id = 254 THEN Front
    ELSE IF raw_page_id = 255 THEN Back
    ELSE Numbered(raw_page_id)

\* video.rs:49-58  PageId::from
PageIdFrom(raw_page_id) ==
    IF raw_page_id = 254 THEN Front
    ELSE IF raw_page_id = 255 THEN Back
    ELSE IF raw_page_id <= 3 THEN Numbered(raw_page_id)
    ELSE Numbered(0)

\* video.rs:165-172  Video::get_page; NoPage stands for the panic arm
NoPage == 0 - 1
GetPage(page_id, front, back) ==
    IF page_id = Front THEN front
    ELSE IF page_id = Back THEN back
    ELSE IF page_id[2] <= 3 THEN page_id[2]
    ELSE NoPage

\* video.rs:59-62  enum PaletteRequest
Keep == <<"Keep">>
Change(palette_id) == <<"Change", palette_id>>

\* video.rs:365  change_palette accepts the palette numbers below this
NUM_PALETTES == 32

\* video.rs:283-287  Video::fill_page
FillPage(pgs, page, color) ==
    [pgs EXCEPT ![page] = [i \in PageBytes |-> BitOr((color * 16) % 256, color)]]

\* video.rs:289-323  Video::copy_page: the pages it leaves, or a panic of
\* the slice indexing at video.rs:304-310
CopyPage(pgs, front, back, src_page_id, dst_page_id, vscroll) ==
    IF src_page_id = dst_page_id
    THEN [panic |-> FALSE, pages |-> pgs]
    ELSE
      LET is_vertical_scrolled ==
              IsNumbered(src_page_id) /\ BitAnd(src_page_id[2], 80) # 0
          src_mask == IF is_vertical_scrolled THEN 3 ELSE 191
          masked_src ==
              IF IsNumbered(src_page_id)
              THEN Numbered(BitAnd(src_page_id[2], src_mask))
              ELSE src_page_id
          raw_src_page_id == GetPage(masked_src, front, back)
          raw_dst_page_id == GetPage(dst_page_id, front, back)
          data_to_copy == HEIGHT - Abs(vscroll)
          src_offset == IF vscroll < 0 THEN -vscroll ELSE 0
          dst_offset == IF vscroll < 0 THEN 0 ELSE vscroll
      IN
      IF raw_src_page_id = NoPage \/ raw_dst_page_id = NoPage
         \/ raw_src_page_id = raw_dst_page_id
      THEN [panic |-> TRUE, pages |-> pgs]
      ELSE IF is_vertical_scrolled /\ Abs(vscroll) <= HEIGHT - 1
      THEN [panic |-> FALSE,
            pages |-> [pgs EXCEPT ![raw_dst_page_id] =
                [i \in PageBytes |->
                    IF i >= dst_offset /\ i < dst_offset + data_to_copy
                    THEN pgs[raw_src_page_id][i - dst_offset + src_offset]
                    ELSE @[i]]]]
      ELSE [panic |-> FALSE,
            pages |-> [pgs EXCEPT ![raw_dst_page_id] = pgs[raw_src_page_id]]]

\* ------------------------------------------------------------ drawing
\* shapes.rs:8-18  struct Point, struct Polygon
Point(x, y) == [x |-> x, y |-> y]
Polygon(bbw, bbh, points) == [bbw |-> bbw, bbh |-> bbh, points |-> points]

Max(a, b) == IF a >= b THEN a ELSE b
Min(a, b) == IF a <= b THEN a ELSE b

\* The byte (color << 4) | color of an u8.
ByteColor(color) == BitOr((color * 16) % 256, color)

\* video.rs:88-109  Video::draw_point
DrawPoint(pgs, work, x, y, color) ==
    IF x < 0 \/ x > WIDTH - 1 \/ y < 0 \/ y > HEIGHT - 1
    THEN pgs
    ELSE
      LET offset == y * HalfWidth + (x \div 2)
          side_mask == IF x % 2 # 0 THEN 15 ELSE 240
          new_color_mask ==
              IF color = 16 THEN BitAnd(side_mask, 136) ELSE side_mask
          old_color_mask ==
              IF color = 16 THEN 255 - new_color_mask ELSE 255 - side_mask
          byte_color ==
              IF color = 16 THEN 136
              ELSE IF color = 17 THEN pgs[0][offset]
              ELSE ByteColor(color)
          pixel_pair == pgs[work][offset]
      IN [pgs EXCEPT ![work][offset] =
              BitOr(BitAnd(pixel_pair, old_color_mask),
                    BitAnd(byte_color, new_color_mask))]

\* The bytes a horizontal line covers: video.rs:114-115, 120-121
LineOffset(hline_y, x1, x2) == hline_y * HalfWidth + (Min(x1, x2) \div 2)
LineWidth(x1, x2) == (Max(x1, x2) \div 2) - (Min(x1, x2) \div 2) + 1
LineStart(x1, x2) == Min(x1, x2) % 2
LineEnd(x1, x2) == Max(0, LineWidth(x1, x2) - 1 - (1 - (Max(x1, x2) % 2)))

\* video.rs:111-125  Video::draw_line_normal, on the work page
DrawLineNormal(page, hline_y, x1, x2, color) ==
    LET offset == LineOffset(hline_y, x1, x2)
        last == offset + LineWidth(x1, x2) - 1
        byte_color == BitOr(BitAnd(color, 15) * 16, BitAnd(color, 15))
        a == [page EXCEPT ![offset] =
                 BitOr(BitAnd(@, 240), BitAnd(byte_color, 15))]
        b == [a EXCEPT ![last] =
                 BitOr(BitAnd(@, 15), BitAnd(byte_color, 240))]
    IN [i \in PageBytes |->
           IF i - offset >= LineStart(x1, x2) /\ i - offset <= LineEnd(x1, x2)
           THEN byte_color ELSE b[i]]

\* video.rs:127-144  Video::draw_line_from_bg; bg_page is left[0], page 0
DrawLineFromBg(page, bg_page, hline_y, x1, x2) ==
    LET offset == LineOffset(hline_y, x1, x2)
        last == offset + LineWidth(x1, x2) - 1
        a == [page EXCEPT ![offset] =
                 BitOr(BitAnd(@, 240), BitAnd(bg_page[offset], 15))]
        b == [a EXCEPT ![last] =
                 BitOr(BitAnd(@, 15), BitAnd(bg_page[last], 240))]
    IN [i \in PageBytes |->
           IF i - offset >= LineStart(x1, x2) /\ i - offset <= LineEnd(x1, x2)
           THEN bg_page[i] ELSE b[i]]

\* video.rs:146-159  Video::draw_line_blend
DrawLineBlend(page, hline_y, x1, x2) ==
    LET offset == LineOffset(hline_y, x1, x2)
        last == offset + LineWidth(x1, x2) - 1
        a == [page EXCEPT ![offset] = BitOr(@, 8)]
        b == [a EXCEPT ![last] = BitOr(@, 128)]
    IN [i \in PageBytes |->
           IF i - offset >= LineStart(x1, x2) /\ i - offset <= LineEnd(x1, x2)
           THEN BitOr(b[i], 136) ELSE b[i]]

\* video.rs:266-270  the line drawn for a colour; split_at_mut(work_buffer)
\* leaves left empty when the work page is page 0, and left[0] panics
DrawLine(st, work, x1, x2, color) ==
    IF color < 16
    THEN [st EXCEPT !.pages[work] = DrawLineNormal(@, st.hline_y, x1, x2, color)]
    ELSE IF color > 16
    THEN IF work = 0
         THEN [st EXCEPT !.panic = TRUE, !.done = TRUE]
         ELSE [st EXCEPT !.pages[work] =
                  DrawLineFromBg(@, st.pages[0], st.hline_y, x1, x2)]
    ELSE [st EXCEPT !.pages[work] = DrawLineBlend(@, st.hline_y, x1, x2)]

\* f64::round of num / den (den > 0): half away from zero
Round(num, den) ==
    IF num >= 0 THEN (2 * num + den) \div (2 * den)
    ELSE 0 - ((2 * (0 - num) + den) \div (2 * den))

\* video.rs:350-354, 258-273  an edge's x after k additions of
\* calc_step = dx / dy in f64: a ratio, an infinity or NaN
XAfter(base, dx, dy, k) ==
    IF k = 0 THEN [kind |-> "num", num |-> base, den |-> 1]
    ELSE IF dy > 0 THEN [kind |-> "num", num |-> base * dy + k * dx, den |-> dy]
    ELSE IF dy < 0
    THEN [kind |-> "num", num |-> base * (0 - dy) - k * dx, den |-> 0 - dy]
    ELSE IF dx > 0 THEN [kind |-> "pinf", num |-> 0, den |-> 1]
    ELSE IF dx < 0 THEN [kind |-> "ninf", num |-> 0, den |-> 1]
    ELSE [kind |-> "nan", num |-> 0, den |-> 1]

\* video.rs:260-278  the scan lines of one pair of edges, from line k on
RECURSIVE ScanLines(_, _, _, _, _, _, _, _)
ScanLines(st, work, color, k, h_diff, left, right, steps) ==
    IF k >= h_diff \/ st.done THEN st
    ELSE
      LET x_left == XAfter(left, steps.dxl, steps.dyl, k)
          x_right == XAfter(right, steps.dxr, steps.dyr, k)
          visible ==
              /\ st.hline_y >= 0
              /\ x_left.num <= (WIDTH - 1) * x_left.den
              /\ \/ x_right.kind = "pinf"
                 \/ x_right.kind = "num" /\ x_right.num >= 0
          draw_left == Max(0, Round(x_left.num, x_left.den))
          draw_right ==
              IF x_right.kind = "pinf" THEN WIDTH - 1
              ELSE Min(Round(x_right.num, x_right.den), WIDTH - 1)
          drawn == IF visible
                   THEN DrawLine(st, work, draw_left, draw_right, color)
                   ELSE st
          next == IF drawn.done THEN drawn
                  ELSE [drawn EXCEPT !.hline_y = @ + 1,
                                     !.done = drawn.hline_y + 1 > HEIGHT - 1]
      IN ScanLines(next, work, color, k + 1, h_diff, left, right, steps)

\* video.rs:247-280  the pairs of edges of the polygon, from pair i on
RECURSIVE FillEdges(_, _, _, _, _, _)
FillEdges(st, work, color, x1, points, i) ==
    IF i >= Len(points) \div 2 \/ st.done THEN st
    ELSE
      LET curr_left_p == points[Len(points) - i]
          next_left_p == points[Len(points) - 1 - i]
          curr_right_p == points[i + 1]
          next_right_p == points[i + 2]
          h_diff == next_left_p.y - curr_left_p.y
          steps == [dxl |-> next_left_p.x - curr_left_p.x,
                    dyl |-> next_left_p.y - curr_left_p.y,
                    dxr |-> next_right_p.x - curr_right_p.x,
                    dyr |-> next_right_p.y - curr_right_p.y]
          after == IF h_diff > 0
                   THEN ScanLines(st, work, color, 0, h_diff,
                                  curr_left_p.x + x1, curr_right_p.x + x1,
                                  steps)
                   ELSE st
      IN FillEdges(after, work, color, x1, points, i + 1)

\* video.rs:232-281  Video::fill_polygon: the pages it leaves, the pages
\* draw_point left on the way (there is no return after draw_point, the
\* scan lines follow), or a panic
FillPolygon(pgs, work, color, pt, polygon) ==
    LET is_point == polygon.bbw = 0 /\ polygon.bbh = 1
                    /\ Len(polygon.points) = 4
        point_pages == IF is_point
                       THEN DrawPoint(pgs, work, pt.x, pt.y, color)
                       ELSE pgs
        x1 == pt.x - (polygon.bbw \div 2)
        x2 == pt.x + (polygon.bbw \div 2)
        y1 == pt.y - (polygon.bbh \div 2)
        y2 == pt.y + (polygon.bbh \div 2)
        st == [pages |-> point_pages, hline_y |-> y1, done |-> FALSE,
               panic |-> FALSE]
        filled == IF x1 > WIDTH - 1 \/ x2 < 0 \/ y1 > HEIGHT - 1 \/ y2 < 0
                  THEN st
                  ELSE FillEdges(st, work, color, x1, polygon.points, 0)
    IN [panic |-> filled.panic, pages |-> filled.pages,
        is_point |-> is_point, point_pages |-> point_pages]

\* video.rs:328-330  a plane of the polygon segment holds one bit for
\* every pixel, PlaneBits of them to a byte (8 in the code; here a row of
\* the page is one plane byte)
PlaneBits == WIDTH
BytesPerRow == WIDTH \div PlaneBits
PlaneOffset == (HEIGHT * WIDTH) \div PlaneBits

\* video.rs:338-343  bit `bit` (counted from the top) of a plane byte
PlaneBit(byte, bit) == (byte \div (2 ^ (PlaneBits - 1 - bit))) % 2

\* video.rs:331-343  the byte acc for pixels 2 * byte and 2 * byte + 1 of
\* the plane bytes at row h, column w: plane 3 gives the top bit
BgByte(src_data, h, w, byte) ==
    LET plane(p) == src_data[h * BytesPerRow + w + PlaneOffset * p + 1]
        nibble(j) == 8 * PlaneBit(plane(3), j) + 4 * PlaneBit(plane(2), j)
                     + 2 * PlaneBit(plane(1), j) + PlaneBit(plane(0), j)
    IN 16 * nibble(2 * byte) + nibble(2 * byte + 1)

\* video.rs:326-345  the array bg_page after the loops: byte `byte` of row
\* h, column w is stored at h * bytes_per_row + w + byte, later stores
\* replacing earlier ones
BgPage(page, src_data) ==
    [i \in PageBytes |->
        LET stores == {c \in (0 .. HEIGHT - 1) \X (0 .. BytesPerRow - 1)
                               \X (0 .. (PlaneBits \div 2) - 1) :
                          c[1] * BytesPerRow + c[2] + c[3] = i}
            last == CHOOSE c \in stores :
                        \A e \in stores :
                            e[1] < c[1] \/ (e[1] = c[1] /\ e[2] <= c[2])
        IN IF stores = {} THEN page[i]
           ELSE BgByte(src_data, last[1], last[2], last[3])]

\* video.rs:325-348  Video::copy_bg: bg_page is a copy of pages[0] (the
\* array is Copy), the loops write to the copy and it is dropped
CopyBg(pgs, src_data) ==
    LET bg_page == BgPage(pgs[0], src_data)
    IN pgs

\* Polygon segments of a part: one shorter than four planes, one all zero,
\* one whose plane 0 sets the first pixel of the page.
PolygonBlobs ==
    { <<>>,
      [k \in 1 .. 4 * PlaneOffset |-> 0],
      [k \in 1 .. 4 * PlaneOffset |-> IF k = 1 THEN 2 ^ (PlaneBits - 1) ELSE 0] }

\* video.rs:77-88  Video::new, renderer.rs:46-51  Renderer::new
VideoNew ==
    /\ pages = [g \in PageIndices |-> [i \in PageBytes |-> 0]]
    /\ work_buffer = 2
    /\ front_buffer = 2
    /\ back_buffer = 1
    /\ palette_req = Keep
    /\ palette = None
    /\ shown = None
    /\ pal_hist = <<"loaded", 0>>
    /\ last_draw = [n |-> 0, x |-> 0, y |-> 0, color |-> 0, is_point |-> FALSE,
                    point_pages |-> pages]
    /\ bg = None

\* No token decoded yet by the running Unpacker::unpack.
NoToken == [kind |-> "none", code |-> 0, length |-> 0]

\* bank.rs:60-65  Unpacker::new, before unpack is called
UnpackerNew ==
    unpacker = [at |-> "idle", size |-> 0, datasize |-> 0, output |-> <<>>,
                token |-> NoToken]

\* No JNZ has run since another opcode ran.
NoLoop == [variable_id |-> 0 - 1, start |-> 0, jumps |-> 0, fell |-> FALSE]

\* vm.rs:77-94 Vm::default, engine.rs:54-64: the state Engine::run builds
Init ==
    /\ variables = [v \in VarIds |-> 0]
    /\ channels = [c \in Channels |-> ChannelDefault]
    /\ running_channel_id = 0
    /\ stack = <<>>
    /\ bytecode_pos = 0
    /\ loaded_part = None
    /\ loaded_asset = {}
    /\ part_to_load = Some(16001)
    /\ phase = "update_part"
    /\ channel_id = 0
    /\ result = "Ok"
    /\ ops_done = 0
    /\ last_op = "init"
    /\ last_arg = 0
    /\ last_vec = [c \in Channels |-> NoVec]
    /\ kill_mark = [c \in Channels |-> "no"]
    /\ reset_mark = [c \in Channels |-> "no"]
    /\ yield_mark = [c \in Channels |-> None]
    /\ dispatched = {}
    /\ part_changed = FALSE
    /\ req_part = Some(16001)
    /\ stack_dropped = 0
    /\ VideoNew
    /\ UnpackerNew
    /\ jnz_loop = NoLoop
    /\ slept = NoSleep
    /\ exit_status = None

\* Length of the bytecode segment under the cursor (LoadedPart::default
\* holds an empty buffer).
SegmentLen == IF loaded_part = None THEN 0 ELSE BytecodeLen

\* vm.rs:97-102  Vm::init_part, the channel array it leaves
InitPartChannels ==
    [c \in Channels |->
        IF c = 0 THEN SetPc(Reset(channels[c]), Valid(0))
        ELSE Reset(channels[c])]

\* parts.rs:29-40  the parts whose row of SEGMENT_IDX_BY_PART names a
\* polygon segment (0x11): Tree, Four, Five, Seven and Eigth
HasPolygon(part_id) == part_id \in {16002, 16003, 16004, 16006, 16007}

\* engine.rs:73-86  Engine::update_part, setup_part succeeding; copy_bg
\* indexes the polygon segment up to its fourth plane and panics on a
\* shorter one
update_part ==
    /\ UNCHANGED <<stack_dropped, work_buffer, front_buffer, back_buffer,
                   palette_req, palette, shown, pal_hist, last_draw, unpacker,
                   jnz_loop, slept, exit_status>>
    /\ phase = "update_part" /\ result = "Ok"
    /\ UNCHANGED ops_done
    /\ last_op' = "update_part"
    /\ last_arg' = 0
    /\ yield_mark' = IF part_to_load # None THEN [c \in Channels |-> None]
                     ELSE yield_mark
    /\ UNCHANGED <<running_channel_id, stack, bytecode_pos, channel_id,
                   last_vec, kill_mark, reset_mark, dispatched>>
    /\ IF part_to_load # None
       THEN /\ variables' = [variables EXCEPT ![228] = 20]
            /\ channels' = InitPartChannels
            /\ \E polygon \in PolygonBlobs :
                  IF HasPolygon(part_to_load[2]) /\ Len(polygon) < 4 * PlaneOffset
                  THEN /\ result' = "Panic"
                       /\ UNCHANGED <<pages, bg, loaded_part, loaded_asset,
                                      part_to_load, part_changed, req_part,
                                      phase>>
                  ELSE /\ IF HasPolygon(part_to_load[2])
                          THEN /\ pages' = CopyBg(pages, polygon)
                               /\ bg' = Some(polygon)
                          ELSE /\ UNCHANGED pages
                               /\ bg' = None
                       /\ loaded_part' = part_to_load
                       /\ loaded_asset' = {}
                       /\ part_to_load' = None
                       /\ part_changed' = TRUE
                       /\ req_part' = None
                       /\ phase' = "check_channel_requests"
                       /\ UNCHANGED result
       ELSE /\ UNCHANGED <<variables, channels, loaded_part, loaded_asset,
                           part_to_load, req_part, pages, result>>
            /\ bg' = None
            /\ part_changed' = FALSE
            /\ phase' = "check_channel_requests"

\* engine.rs:75-77  Engine::update_part, setup_part failing after init_part
update_part_fails ==
    /\ UNCHANGED <<stack_dropped, video, ext>>
    /\ phase = "update_part" /\ result = "Ok"
    /\ UNCHANGED ops_done
    /\ part_to_load # None
    /\ variables' = [variables EXCEPT ![228] = 20]
    /\ channels' = InitPartChannels
    /\ result' = "ResourceError"
    /\ last_op' = "update_part_fails"
    /\ last_arg' = 0
    /\ UNCHANGED <<running_channel_id, stack, bytecode_pos, loaded_part,
                   loaded_asset, part_to_load, phase, channel_id, hist>>

\* vm.rs:104-109  Vm::check_channel_requests
CommitChannels == [c \in Channels |-> ApplyNextPc(channels[c])]

\* History: the boundary neither seats channel c through a part change nor
\* commits a Valid next_pc for it.
Undisturbed(c) ==
    /\ ~(part_changed /\ c = 0)
    /\ ~(channels[c].next_pc # None /\ IsValid(channels[c].next_pc[2]))

check_channel_requests ==
    /\ UNCHANGED <<stack_dropped, video, ext>>
    /\ phase = "check_channel_requests" /\ result = "Ok"
    /\ UNCHANGED ops_done
    /\ channels' = CommitChannels
    /\ phase' = "host_frame"
    /\ channel_id' = 0
    /\ last_op' = "check_channel_requests"
    /\ last_arg' = 0
    /\ kill_mark' = [c \in Channels |->
          CASE kill_mark[c] \in {"this", "this_reset"} /\ Undisturbed(c)
                 -> IF kill_mark[c] = "this" THEN "prev_clean" ELSE "prev_reset"
            [] kill_mark[c] \in {"this", "this_reset"} -> "prev"
            [] OTHER -> "no"]
    /\ reset_mark' = [c \in Channels |-> "no"]
    /\ UNCHANGED yield_mark
    /\ dispatched' = {}
    /\ UNCHANGED <<variables, running_channel_id, stack, bytecode_pos,
                   loaded_part, loaded_asset, part_to_load, result,
                   last_vec, part_changed, req_part>>

\* vm.rs:112-121  one iteration of the loop of Vm::host_frame, with the
\* first lines of Vm::run_channel (vm.rs:131-137) when the channel is
\* dispatched
\* The scheduler passing over Dead channels only.
Dispatchable_not_dead(ch) == ch.state # "Dead" /\ IsValid(ch.pc)

Dispatchable(ch) == ch.state = "Ready" /\ IsValid(ch.pc)

\* The dispatch leaving the stack of the slice before in place.
DispatchStack_kept == stack

\* vm.rs:118  self.stack.clear()
DispatchStack == <<>>

host_frame ==
    /\ UNCHANGED <<video, ext>>
    /\ phase = "host_frame" /\ result = "Ok"
    /\ UNCHANGED ops_done
    /\ channel_id < NUM_CHANNELS
    /\ IF Dispatchable(channels[channel_id])
       THEN /\ stack' = DispatchStack
            /\ bytecode_pos' = channels[channel_id].pc[2]
            /\ running_channel_id' = channel_id
            /\ channels' = [channels EXCEPT ![channel_id].state = "Running"]
            /\ phase' = "run_channel"
            /\ channel_id' = channel_id
            /\ last_op' = "dispatch"
            /\ last_arg' = 0
            /\ dispatched' = dispatched \cup {channel_id}
            /\ stack_dropped' = Len(stack)
       ELSE /\ channel_id' = channel_id + 1
            /\ last_op' = "skip"
            /\ last_arg' = 0
            /\ stack_dropped' = 0
            /\ UNCHANGED <<stack, bytecode_pos, running_channel_id, channels,
                           phase, dispatched>>
    /\ last_vec' = IF channel_id = 0 THEN [c \in Channels |-> NoVec] ELSE last_vec
    /\ reset_mark' = [reset_mark EXCEPT ![channel_id] = "no"]
    /\ yield_mark' = [yield_mark EXCEPT ![channel_id] = None]
    /\ UNCHANGED <<variables, loaded_part, loaded_asset, part_to_load, result,
                   kill_mark, part_changed, req_part>>

\* vm.rs:122  Vm::host_frame returns Ok, engine.rs:66-70 loops
host_frame_done ==
    /\ stack_dropped' = 0
    /\ UNCHANGED <<video, ext>>
    /\ phase = "host_frame" /\ result = "Ok"
    /\ UNCHANGED ops_done
    /\ channel_id = NUM_CHANNELS
    /\ phase' = "update_part"
    /\ last_op' = "host_frame_done"
    /\ last_arg' = 0
    /\ UNCHANGED <<prog, channel_id, result, hist>>

\* ---------------------------------------------------- Vm::run_channel
\* The dispatch loop going on after a handler has failed.
InSlice_after_failure == phase = "run_channel" /\ ops_done < MaxOps

\* vm.rs:138-149  the loop of run_channel is at the opcode fetch: every ?
\* before it returned Ok
InSlice == phase = "run_channel" /\ result = "Ok" /\ ops_done < MaxOps

\* The bytes from the cursor to the end of the segment hold n more bytes.
CanRead(n) == bytecode_pos + n <= SegmentLen

\* vm.rs:146-148  the test that ends the loop of run_channel; on break
\* run_channel returns Ok and the for loop of host_frame moves on
LoopTest(chs) ==
    IF chs[channel_id].state # "Running"
    THEN phase' = "host_frame" /\ channel_id' = channel_id + 1
    ELSE phase' = "run_channel" /\ channel_id' = channel_id

\* vm.rs:139  read_u8 of the opcode, or a later operand read, hits the end
\* of the segment: the ? operators carry the io::Error out of Engine::run
InstructionLens == {1, 3, 4}

run_channel_eof ==
    /\ UNCHANGED <<stack_dropped, video, ext>>
    /\ InSlice
    /\ CountOp
    /\ \E n \in InstructionLens : ~CanRead(n)
    /\ bytecode_pos' = SegmentLen
    /\ result' = "Io"
    /\ last_op' = "eof"
    /\ last_arg' = 0
    /\ UNCHANGED <<variables, channels, running_channel_id, stack, loaded_part,
                   loaded_asset, part_to_load, phase, channel_id, hist>>

\* vm.rs:143  OPCODE_TABLE[opcode] with 27 <= opcode < 64: index out of
\* bounds of the 27-entry table
run_channel_bad_opcode ==
    /\ UNCHANGED <<stack_dropped, video, ext>>
    /\ InSlice /\ CanRead(1)
    /\ CountOp
    /\ bytecode_pos' = bytecode_pos + 1
    /\ result' = "Panic"
    /\ last_op' = "bad_opcode"
    /\ last_arg' = 0
    /\ UNCHANGED <<variables, channels, running_channel_id, stack, loaded_part,
                   loaded_asset, part_to_load, phase, channel_id, hist>>

\* vm.rs:154-160  opcode 0, MOV_CONST
op_mov_const ==
    /\ UNCHANGED <<stack_dropped, video, ext>>
    /\ InSlice /\ CanRead(4)
    /\ CountOp
    /\ \E variable_id \in VarIds, value \in VarValues :
          variables' = [variables EXCEPT ![variable_id] = value]
    /\ bytecode_pos' = bytecode_pos + 4
    /\ LoopTest(channels)
    /\ last_op' = "MOV_CONST"
    /\ last_arg' = 0
    /\ UNCHANGED <<channels, running_channel_id, stack, loaded_part,
                   loaded_asset, part_to_load, result, hist>>

\* vm.rs:186-193  opcode 4, CALL
op_call ==
    /\ UNCHANGED <<stack_dropped, video, ext>>
    /\ InSlice /\ CanRead(3)
    /\ CountOp
    /\ Len(stack) < MaxStack
    /\ \E offset \in PcOperands :
          /\ stack' = Append(stack, bytecode_pos + 3)
          /\ bytecode_pos' = offset
    /\ LoopTest(channels)
    /\ last_op' = "CALL"
    /\ last_arg' = 0
    /\ UNCHANGED <<variables, channels, running_channel_id, loaded_part,
                   loaded_asset, part_to_load, result, hist>>

\* vm.rs:195-199  opcode 5, RET
op_ret ==
    /\ UNCHANGED <<stack_dropped, video, ext>>
    /\ InSlice /\ CanRead(1)
    /\ CountOp
    /\ IF stack = <<>>
       THEN /\ result' = "StackUnderflow"
            /\ bytecode_pos' = bytecode_pos + 1
            /\ UNCHANGED <<stack, phase, channel_id>>
       ELSE /\ bytecode_pos' = stack[Len(stack)]
            /\ stack' = SubSeq(stack, 1, Len(stack) - 1)
            /\ LoopTest(channels)
            /\ UNCHANGED result
    /\ last_op' = "RET"
    /\ last_arg' = 0
    /\ UNCHANGED <<variables, channels, running_channel_id, loaded_part,
                   loaded_asset, part_to_load, hist>>

\* PAUSE_THREAD marking the channel Paused and keeping its old pc.
YieldChannels_paused ==
    [channels EXCEPT ![running_channel_id].state = "Paused"]

\* PAUSE_THREAD committing the offset of its own opcode.
YieldChannels_at_opcode ==
    [channels EXCEPT ![running_channel_id] =
        YieldControl(@, ProcessCounterFrom(bytecode_pos))]

\* vm.rs:201-206  opcode 6, PAUSE_THREAD: the channel array it leaves
YieldChannels ==
    [channels EXCEPT ![running_channel_id] =
        YieldControl(@, ProcessCounterFrom(bytecode_pos + 1))]

op_yield_channel ==
    /\ UNCHANGED <<stack_dropped, video, ext>>
    /\ InSlice /\ CanRead(1)
    /\ CountOp
    /\ bytecode_pos' = bytecode_pos + 1
    /\ channels' = YieldChannels
    /\ LoopTest(YieldChannels)
    /\ last_op' = "PAUSE_THREAD"
    /\ last_arg' = 0
    /\ yield_mark' = [yield_mark EXCEPT
                         ![running_channel_id] =
                            IF channels[running_channel_id].next_pc = None
                            THEN Some(bytecode_pos + 1) ELSE None]
    /\ UNCHANGED <<variables, running_channel_id, stack, loaded_part,
                   loaded_asset, part_to_load, result, last_vec, kill_mark,
                   reset_mark, dispatched, part_changed, req_part>>

\* vm.rs:208-213  opcode 7, JMP
op_jmp ==
    /\ UNCHANGED <<stack_dropped, video, ext>>
    /\ InSlice /\ CanRead(3)
    /\ CountOp
    /\ \E offset \in PcOperands : bytecode_pos' = offset
    /\ LoopTest(channels)
    /\ last_op' = "JMP"
    /\ last_arg' = 0
    /\ UNCHANGED <<variables, channels, running_channel_id, stack, loaded_part,
                   loaded_asset, part_to_load, result, hist>>

\* SET_VEC seating the channel at once instead of staging the offset.
SetNextPc_immediate(chs, id, offset) ==
    [chs EXCEPT ![id] = SetPc(@, ProcessCounterFrom(offset))]

\* SET_VEC keeping a request that is already staged (first writer wins).
SetNextPc_first(chs, id, offset) ==
    IF chs[id].next_pc = None
    THEN [chs EXCEPT ![id].next_pc = Some(ProcessCounterFrom(offset))]
    ELSE chs

\* vm.rs:215-221  opcode 8, SET_VEC: the channel array it leaves
SetNextPc(chs, id, offset) ==
    [chs EXCEPT ![id].next_pc = Some(ProcessCounterFrom(offset))]

op_set_next_pc ==
    /\ UNCHANGED <<stack_dropped, video, ext>>
    /\ InSlice /\ CanRead(4)
    /\ CountOp
    /\ bytecode_pos' = bytecode_pos + 4
    /\ \E id \in ChannelOperands, offset \in VecOperands :
          IF id \in Channels
          THEN /\ channels' = SetNextPc(channels, id, offset)
               /\ LoopTest(SetNextPc(channels, id, offset))
               /\ last_vec' = [last_vec EXCEPT ![id] =
                     [last |-> Some(offset),
                      writes |-> IF @.writes = 0 THEN 1 ELSE 2,
                      overridden |-> FALSE]]
               /\ yield_mark' = [yield_mark EXCEPT ![id] = None]
               /\ UNCHANGED result
          ELSE /\ result' = "Panic"
               /\ UNCHANGED <<channels, phase, channel_id, last_vec,
                              yield_mark>>
    /\ last_op' = "SET_VEC"
    /\ last_arg' = 0
    /\ UNCHANGED <<variables, running_channel_id, stack, loaded_part,
                   loaded_asset, part_to_load, kill_mark, reset_mark,
                   dispatched, part_changed, req_part>>

\* RESET_THREADS action 0 marking the channels Running.
ResetOperation_running(operation_id, ch) ==
    CASE operation_id = 0 -> [ch EXCEPT !.state = "Running"]
      [] operation_id = 1 -> [ch EXCEPT !.state = "Paused"]
      [] OTHER -> [ch EXCEPT !.next_pc = Some(Invalid)]

\* vm.rs:279-283  the closure RESET_THREADS applies to a channel
ResetOperation(operation_id, ch) ==
    CASE operation_id = 0 -> [ch EXCEPT !.state = "Ready"]
      [] operation_id = 1 -> [ch EXCEPT !.state = "Paused"]
      [] OTHER -> [ch EXCEPT !.next_pc = Some(Invalid)]

\* vm.rs:284  channels[from..=to]: the range is a slice of the array
RangeInBounds(from, to) == from <= to + 1 /\ to + 1 <= NUM_CHANNELS

\* RESET_THREADS leaving out the channel `to`.
ResetThreads_exclusive(chs, from, to, operation_id) ==
    [c \in Channels |->
        IF from <= c /\ c < to THEN ResetOperation(operation_id, chs[c])
        ELSE chs[c]]

\* vm.rs:284  the closure applied to channels[from..=to]
ResetThreads(chs, from, to, operation_id) ==
    [c \in Channels |->
        IF from <= c /\ c <= to THEN ResetOperation(operation_id, chs[c])
        ELSE chs[c]]

\* vm.rs:274-286  opcode 12, RESET_THREADS
op_reset_threads ==
    /\ UNCHANGED <<stack_dropped, video, ext>>
    /\ InSlice /\ CanRead(4)
    /\ CountOp
    /\ bytecode_pos' = bytecode_pos + 4
    /\ \E from \in ChannelOperands, to \in ChannelOperands,
          operation_id \in ActionOperands :
          /\ last_arg' = (from * 256 + to) * 256 + operation_id
          /\ IF RangeInBounds(from, to)
             THEN /\ channels' = ResetThreads(channels, from, to, operation_id)
                  /\ LoopTest(ResetThreads(channels, from, to, operation_id))
                  /\ kill_mark' = [c \in Channels |->
                        IF from <= c /\ c <= to /\ operation_id \in {0, 1}
                           /\ kill_mark[c] = "this"
                        THEN "this_reset" ELSE kill_mark[c]]
                  /\ reset_mark' = [c \in Channels |->
                        IF from <= c /\ c <= to /\ c > running_channel_id
                           /\ operation_id \in {0, 1}
                        THEN (IF operation_id = 0 THEN "ready" ELSE "paused")
                        ELSE reset_mark[c]]
                  /\ yield_mark' = [c \in Channels |->
                        IF from <= c /\ c <= to THEN None ELSE yield_mark[c]]
                  /\ last_vec' = [c \in Channels |->
                        IF from <= c /\ c <= to /\ operation_id \notin {0, 1}
                        THEN [last_vec[c] EXCEPT !.overridden = TRUE]
                        ELSE last_vec[c]]
                  /\ UNCHANGED result
             ELSE /\ result' = "Panic"
                  /\ UNCHANGED <<channels, phase, channel_id, kill_mark, reset_mark, yield_mark,
                                 last_vec>>
    /\ last_op' = "RESET_THREADS"
    /\ UNCHANGED <<variables, running_channel_id, stack, loaded_part,
                   loaded_asset, part_to_load, dispatched,
                   part_changed, req_part>>

\* KILL_THREAD marking the channel Paused instead of Dead.
KillChannels_paused ==
    [channels EXCEPT ![running_channel_id].pc = Invalid,
                     ![running_channel_id].state = "Paused"]

\* vm.rs:329-333  opcode 17, KILL_THREAD: the channel array it leaves
KillChannels ==
    [channels EXCEPT ![running_channel_id] = SetPc(@, Invalid)]

op_kill_channel ==
    /\ UNCHANGED <<stack_dropped, video, ext>>
    /\ InSlice /\ CanRead(1)
    /\ CountOp
    /\ bytecode_pos' = bytecode_pos + 1
    /\ channels' = KillChannels
    /\ LoopTest(KillChannels)
    /\ kill_mark' = [kill_mark EXCEPT ![running_channel_id] = "this"]
    /\ UNCHANGED <<reset_mark, yield_mark>>
    /\ last_op' = "KILL_THREAD"
    /\ last_arg' = 0
    /\ UNCHANGED <<variables, running_channel_id, stack, loaded_part,
                   loaded_asset, part_to_load, result, last_vec,
                   dispatched, part_changed, req_part>>

\* UPDATE_MEM_LIST keeping a part request that is already staged.
StagePart_first(resource_id) ==
    IF part_to_load = None THEN Some(resource_id) ELSE part_to_load

\* vm.rs:405  the part request UPDATE_MEM_LIST leaves for a game-part id
StagePart(resource_id) == Some(resource_id)

\* vm.rs:394-408  opcode 25, UPDATE_MEM_LIST, every call succeeding
op_update_mem_list ==
    /\ UNCHANGED <<stack_dropped, video, ext>>
    /\ InSlice /\ CanRead(3)
    /\ CountOp
    /\ bytecode_pos' = bytecode_pos + 3
    /\ \E resource_id \in ResourceOperands :
          /\ last_arg' = resource_id
          /\ IF resource_id = 0
             THEN /\ loaded_asset' = {}
                  /\ UNCHANGED <<part_to_load, result, req_part>>
                  /\ LoopTest(channels)
             ELSE IF IsMemEntry(resource_id)
             THEN /\ loaded_asset' = loaded_asset \cup {resource_id}
                  /\ UNCHANGED <<part_to_load, result, req_part>>
                  /\ LoopTest(channels)
             ELSE IF IsGamePart(resource_id)
             THEN /\ part_to_load' = StagePart(resource_id)
                  /\ req_part' = Some(resource_id)
                  /\ UNCHANGED <<loaded_asset, result>>
                  /\ LoopTest(channels)
             ELSE /\ result' = "InvalidGamePart"
                  /\ UNCHANGED <<loaded_asset, part_to_load, phase,
                                 channel_id, req_part>>
    /\ last_op' = "UPDATE_MEM_LIST"
    /\ UNCHANGED <<variables, channels, running_channel_id, stack,
                   loaded_part, last_vec, kill_mark, reset_mark, yield_mark,
                   dispatched,
                   part_changed>>

\* vm.rs:399  load_entry fails (a bank file is missing or short)
op_update_mem_list_fails ==
    /\ UNCHANGED <<stack_dropped, video, ext>>
    /\ InSlice /\ CanRead(3)
    /\ CountOp
    /\ bytecode_pos' = bytecode_pos + 3
    /\ \E resource_id \in ResourceOperands :
          /\ IsMemEntry(resource_id)
          /\ last_arg' = resource_id
    /\ result' = "ResourceError"
    /\ last_op' = "UPDATE_MEM_LIST"
    /\ UNCHANGED <<variables, channels, running_channel_id, stack,
                   loaded_part, loaded_asset, part_to_load, phase,
                   channel_id, last_vec, kill_mark, reset_mark, yield_mark,
                   dispatched,
                   part_changed,
                   req_part>>

\* ------------------------------------------------------ video opcodes
\* Raw page bytes: the four pages, a byte above 3, a byte with bit 0x80
\* set, and the aliases 0xFE and 0xFF.
PageOperands == {0, 1, 2, 3, 5, 129, 254, 255}
\* Colour bytes of FILL_VIDEO_PAGE.
ColorOperands == {1, 2}
\* u16 operands of SET_PALETTE: palettes 1, 1 (low byte set), 2 and 32.
PaletteOperands == {256, 511, 512, 8192}
\* Variables the video opcodes read or write: 0xE4, 0xF7 and 0xF9
\* (VM_VARIABLE_SCROLL_Y), and the values of the scroll variable.
VideoVarIds == {228, 247, 249, 255}
ScrollValues == {0 - 1, 0, 1}

\* A video opcode is fetched.
InVideoSlice == InSlice /\ ops_done < MaxVideoOps

\* What a video opcode leaves alone in the Vm and the execution context.
vm_rest == <<channels, running_channel_id, stack, loaded_part, loaded_asset,
             part_to_load, hist, stack_dropped>>

\* vm.rs:267-272  the request op_set_palette hands to request_palette
RequestPalette(palette_id) == Change(palette_id \div 256)

\* vm.rs:267-272  opcode 11, SET_PALETTE (video.rs:356-358 request_palette)
op_set_palette ==
    /\ InVideoSlice /\ CanRead(3)
    /\ CountOp
    /\ \E palette_id \in PaletteOperands :
          /\ palette_req' = RequestPalette(palette_id)
          /\ last_arg' = palette_id
    /\ pal_hist' = IF pal_hist[1] = "pending" /\ pal_hist[2] >= 1
                   THEN <<"pending", 2>> ELSE <<"pending", 1>>
    /\ bytecode_pos' = bytecode_pos + 3
    /\ LoopTest(channels)
    /\ last_op' = "SET_PALETTE"
    /\ UNCHANGED <<variables, result, ext, vm_rest, pages, work_buffer,
                   front_buffer, back_buffer, palette, shown>>

\* vm.rs:288-292  opcode 13, SELECT_VIDEO_PAGE (video.rs:161-163)
op_select_video_page ==
    /\ InVideoSlice /\ CanRead(2)
    /\ CountOp
    /\ bytecode_pos' = bytecode_pos + 2
    /\ \E raw_page_id \in PageOperands :
          LET page == GetPage(PageIdFrom(raw_page_id), front_buffer, back_buffer)
          IN /\ last_arg' = raw_page_id
             /\ IF page = NoPage
                THEN /\ result' = "Panic"
                     /\ UNCHANGED <<work_buffer, phase, channel_id>>
                ELSE /\ work_buffer' = page
                     /\ LoopTest(channels)
                     /\ UNCHANGED result
    /\ last_op' = "SELECT_VIDEO_PAGE"
    /\ UNCHANGED <<variables, ext, vm_rest, pages, front_buffer, back_buffer,
                   palette_req, palette, shown, pal_hist>>

\* vm.rs:294-300  opcode 14, FILL_VIDEO_PAGE
op_fill_video_page ==
    /\ InVideoSlice /\ CanRead(3)
    /\ CountOp
    /\ bytecode_pos' = bytecode_pos + 3
    /\ \E raw_page_id \in PageOperands, color \in ColorOperands :
          LET page == GetPage(PageIdFrom(raw_page_id), front_buffer, back_buffer)
          IN /\ last_arg' = raw_page_id * 256 + color
             /\ IF page = NoPage
                THEN /\ result' = "Panic"
                     /\ UNCHANGED <<pages, phase, channel_id>>
                ELSE /\ pages' = FillPage(pages, page, color)
                     /\ LoopTest(channels)
                     /\ UNCHANGED result
    /\ last_op' = "FILL_VIDEO_PAGE"
    /\ UNCHANGED <<variables, ext, vm_rest, work_buffer, front_buffer, back_buffer,
                   palette_req, palette, shown, pal_hist>>

\* vm.rs:302-312  opcode 15, COPY_VIDEO_PAGE
op_copy_video_page ==
    /\ InVideoSlice /\ CanRead(3)
    /\ CountOp
    /\ bytecode_pos' = bytecode_pos + 3
    /\ \E src \in PageOperands, dst \in PageOperands :
          LET copied == CopyPage(pages, front_buffer, back_buffer,
                                 PageIdFrom(src), PageIdFrom(dst),
                                 variables[249])
          IN /\ last_arg' = src * 256 + dst
             /\ IF copied.panic
                THEN /\ result' = "Panic"
                     /\ UNCHANGED <<pages, phase, channel_id>>
                ELSE /\ pages' = copied.pages
                     /\ LoopTest(channels)
                     /\ UNCHANGED result
    /\ last_op' = "COPY_VIDEO_PAGE"
    /\ UNCHANGED <<variables, ext, vm_rest, work_buffer, front_buffer, back_buffer,
                   palette_req, palette, shown, pal_hist>>

\* BLIT_FRAME_BUFFER showing the numbered page or the front page, the back
\* page never.
DisplayFront_no_swap(page_id, front, back) ==
    IF IsNumbered(page_id) THEN GetPage(page_id, front, back) ELSE front

\* video.rs:377-381  the front and back indices Video::update_display sets
DisplayFront(page_id, front, back) ==
    IF IsNumbered(page_id) THEN GetPage(page_id, front, back)
    ELSE IF page_id = Back THEN back
    ELSE front

DisplayBack(page_id, front, back) ==
    IF page_id = Back THEN front ELSE back

\* update_display keeping the palette request after loading it.
RequestAfterLoad_kept(req) == req

\* video.rs:383-386  the palette request a successful update_display leaves
RequestAfterLoad(req) == Keep

\* Milliseconds since the last blit that Instant::elapsed reports: a short
\* frame, and a stall longer than 32767 ms.
ElapsedValues == {5, 40000}
\* Values of vars[0xFF]: a negative one, one frame of 20 ms, and the first
\* whose product with 20 is above 32767.
PauseValues == {0 - 1, 1, 1639}

\* vm.rs:316-317  the i16 expression variables[0xFF] * 20 - elapsed as i16
\* and max(0, sleep): `as i16` keeps the low 16 bits of the u128; a product
\* or a difference out of range panics in a build with overflow checks
\* and wraps in one without
SleepOutcomes(pause, elapsed) ==
    LET product == pause * 20
        sleep == Wrap16(product) - ToI16(elapsed % 65536)
        ms == IF Wrap16(sleep) > 0 THEN Wrap16(sleep) ELSE 0
    IN {[panic |-> FALSE, ms |-> ms]} \cup
       (IF FitsI16(product) /\ FitsI16(sleep) THEN {}
        ELSE {[panic |-> TRUE, ms |-> 0]})

\* vm.rs:314-327  opcode 16, BLIT_FRAME_BUFFER, with video.rs:360-391
\* change_palette and update_display, the renderer succeeding
op_blit_frame_buffer ==
    /\ InVideoSlice /\ CanRead(1)
    /\ CountOp
    /\ \E elapsed \in ElapsedValues :
          \E sleep \in SleepOutcomes(variables[255], elapsed) :
             /\ slept' = [elapsed |-> elapsed, ms |-> sleep.ms,
                          panic |-> sleep.panic]
             /\ IF sleep.panic
                THEN /\ result' = "Panic"
                     /\ bytecode_pos' = bytecode_pos + 1
                     /\ last_arg' = 0
                     /\ UNCHANGED <<variables, front_buffer, back_buffer,
                                    palette_req, palette, shown, pal_hist,
                                    phase, channel_id>>
                ELSE /\ variables' = [variables EXCEPT ![247] = 0]
                     /\ IF ~CanRead(2)
                        THEN /\ result' = "Io"
                             /\ bytecode_pos' = SegmentLen
                             /\ last_arg' = 0
                             /\ UNCHANGED <<front_buffer, back_buffer, palette_req, palette,
                                            shown, pal_hist, phase, channel_id>>
                        ELSE /\ bytecode_pos' = bytecode_pos + 2
                             /\ \E raw_page_id \in PageOperands :
                                   LET page_id == PageIdFrom(raw_page_id)
                                       front == DisplayFront(page_id, front_buffer, back_buffer)
                                       back == DisplayBack(page_id, front_buffer, back_buffer)
                                   IN /\ last_arg' = raw_page_id
                                      /\ IF front = NoPage
                                         THEN /\ result' = "Panic"
                                              /\ UNCHANGED <<front_buffer, back_buffer,
                                                             palette_req, palette, shown,
                                                             pal_hist, phase, channel_id>>
                                         ELSE /\ front_buffer' = front
                                              /\ back_buffer' = back
                                              /\ IF palette_req # Keep
                                                    /\ palette_req[2] >= NUM_PALETTES
                                                 THEN /\ result' = "InvalidPalette"
                                                      /\ UNCHANGED <<palette_req, palette,
                                                                     shown, pal_hist, phase,
                                                                     channel_id>>
                                                 ELSE /\ palette' =
                                                           IF palette_req # Keep
                                                           THEN Some(palette_req[2])
                                                           ELSE palette
                                                      /\ palette_req' = RequestAfterLoad(palette_req)
                                                      /\ shown' = Some(front)
                                                      /\ pal_hist' =
                                                           IF pal_hist[1] = "pending"
                                                           THEN <<"loaded", pal_hist[2]>>
                                                           ELSE <<"loaded", 0>>
                                                      /\ LoopTest(channels)
                                                      /\ UNCHANGED result
    /\ last_op' = "BLIT_FRAME_BUFFER"
    /\ UNCHANGED <<last_draw, bg, unpacker, jnz_loop, exit_status, vm_rest,
                   pages, work_buffer>>

\* vm.rs:314-327 with renderer.rs:53-65 and 67-103: the palette segment
\* ends before the requested palette (set_palette fails, nothing is loaded)
\* or the renderer fails to draw the page
op_blit_frame_buffer_fails ==
    /\ InVideoSlice /\ CanRead(2)
    /\ CountOp
    /\ \E elapsed \in ElapsedValues :
          \E sleep \in SleepOutcomes(variables[255], elapsed) :
             /\ ~sleep.panic
             /\ slept' = [elapsed |-> elapsed, ms |-> sleep.ms,
                          panic |-> FALSE]
    /\ variables' = [variables EXCEPT ![247] = 0]
    /\ bytecode_pos' = bytecode_pos + 2
    /\ \E raw_page_id \in PageOperands :
          LET page_id == PageIdFrom(raw_page_id)
              front == DisplayFront(page_id, front_buffer, back_buffer)
              back == DisplayBack(page_id, front_buffer, back_buffer)
          IN /\ last_arg' = raw_page_id
             /\ front # NoPage
             /\ front_buffer' = front
             /\ back_buffer' = back
    /\ \/ /\ palette_req # Keep
          /\ palette_req[2] < NUM_PALETTES
          /\ UNCHANGED <<palette_req, palette>>
       \/ /\ IF palette_req = Keep THEN TRUE
             ELSE palette_req[2] < NUM_PALETTES
          /\ palette' = IF palette_req # Keep THEN Some(palette_req[2])
                        ELSE palette
          /\ palette_req' = RequestAfterLoad(palette_req)
    /\ result' = "RendererError"
    /\ last_op' = "BLIT_FRAME_BUFFER"
    /\ UNCHANGED <<last_draw, bg, unpacker, jnz_loop, exit_status, vm_rest,
                   pages, work_buffer, shown, pal_hist, phase, channel_id>>

\* engine.rs:54-64 with the variables a bytecode prologue of MOV_CONSTs set
\* (restricted to VideoVarIds)
VideoInit ==
    /\ \E vscroll \in ScrollValues :
          variables = [v \in VideoVarIds |->
                          IF v = 249 THEN vscroll ELSE IF v = 247 THEN 1 ELSE 0]
    /\ channels = [c \in Channels |-> ChannelDefault]
    /\ running_channel_id = 0
    /\ stack = <<>>
    /\ bytecode_pos = 0
    /\ loaded_part = None
    /\ loaded_asset = {}
    /\ part_to_load = Some(16001)
    /\ phase = "update_part"
    /\ channel_id = 0
    /\ result = "Ok"
    /\ ops_done = 0
    /\ last_op = "init"
    /\ last_arg = 0
    /\ last_vec = [c \in Channels |-> NoVec]
    /\ kill_mark = [c \in Channels |-> "no"]
    /\ reset_mark = [c \in Channels |-> "no"]
    /\ yield_mark = [c \in Channels |-> None]
    /\ dispatched = {}
    /\ part_changed = FALSE
    /\ req_part = Some(16001)
    /\ stack_dropped = 0
    /\ VideoNew
    /\ UnpackerNew
    /\ jnz_loop = NoLoop
    /\ slept = NoSleep
    /\ exit_status = None

\* The engine loop running bytecode made of the video opcodes, JMP and
\* PAUSE_THREAD.
VideoNext ==
    \/ update_part
    \/ check_channel_requests
    \/ host_frame
    \/ host_frame_done
    \/ run_channel_eof
    \/ op_yield_channel
    \/ op_jmp
    \/ op_set_palette
    \/ op_select_video_page
    \/ op_fill_video_page
    \/ op_copy_video_page
    \/ op_blit_frame_buffer
    \/ op_blit_frame_buffer_fails

VideoSpec == VideoInit /\ [][VideoNext]_vars

\* engine.rs:54-64 with vars[0xFF] set by a bytecode prologue
BlitInit ==
    /\ \E pause \in PauseValues :
          variables = [v \in VideoVarIds |->
                          IF v = 255 THEN pause ELSE IF v = 247 THEN 1 ELSE 0]
    /\ channels = [c \in Channels |-> ChannelDefault]
    /\ running_channel_id = 0
    /\ stack = <<>>
    /\ bytecode_pos = 0
    /\ loaded_part = None
    /\ loaded_asset = {}
    /\ part_to_load = Some(16001)
    /\ phase = "update_part"
    /\ channel_id = 0
    /\ result = "Ok"
    /\ ops_done = 0
    /\ last_op = "init"
    /\ last_arg = 0
    /\ last_vec = [c \in Channels |-> NoVec]
    /\ kill_mark = [c \in Channels |-> "no"]
    /\ reset_mark = [c \in Channels |-> "no"]
    /\ yield_mark = [c \in Channels |-> None]
    /\ dispatched = {}
    /\ part_changed = FALSE
    /\ req_part = Some(16001)
    /\ stack_dropped = 0
    /\ VideoNew
    /\ UnpackerNew
    /\ jnz_loop = NoLoop
    /\ slept = NoSleep
    /\ exit_status = None

\* The engine loop running bytecode made of SET_PALETTE, BLIT_FRAME_BUFFER
\* and PAUSE_THREAD.
BlitNext ==
    \/ update_part
    \/ check_channel_requests
    \/ host_frame
    \/ host_frame_done
    \/ run_channel_eof
    \/ op_yield_channel
    \/ op_set_palette
    \/ op_blit_frame_buffer
    \/ op_blit_frame_buffer_fails

BlitSpec == BlitInit /\ [][BlitNext]_vars

\* ------------------------------------------------------ polygon opcodes
\* Opcodes of the sprite form: 0x40 (x and y as 16-bit immediates) and 0x68
\* (x and y as bytes), both with the default zoom and the cinematic segment.
SpriteOpcodes == {64, 104}
\* Reference points: left of, on and right of the page; on and below it.
XOperands == {0 - 1, 0, 1, WIDTH}
YOperands == {0, HEIGHT - 1, HEIGHT}
\* First byte of the polygon data: 0 (no polygon, no hierarchy) and polygon
\* commands carrying the colours 1, 0x10, 0x11 and 0x12.
PolygonCommands == {0, 193, 208, 209, 210}
\* Polygon data after the command byte: the single point with all vertices
\* equal, the single point with edges one line high, a single point with
\* edges two lines high, a rectangle two pixels wide, and two vertices.
PolygonShapes ==
    { Polygon(0, 1, <<Point(0, 0), Point(0, 0), Point(0, 0), Point(0, 0)>>),
      Polygon(0, 1, <<Point(0, 0), Point(0, 1), Point(0, 1), Point(0, 0)>>),
      Polygon(0, 1, <<Point(1, 0), Point(2, 2), Point(0, 2), Point(0, 0)>>),
      Polygon(2, 1, <<Point(2, 0), Point(2, 1), Point(0, 1), Point(0, 0)>>),
      Polygon(0, 1, <<Point(0, 0), Point(0, 1)>>) }

\* vm.rs:418-474  Vm::draw_sprite for the opcodes of SpriteOpcodes, with
\* video.rs:208-230 read_and_draw_polygon on the cinematic segment: the
\* offset, x and y are read, the zoom byte is read and given back
draw_sprite ==
    /\ InVideoSlice /\ last_draw.n < MaxDraws
    /\ CountOp
    /\ \E opcode \in SpriteOpcodes, x \in XOperands, y \in YOperands,
          command \in PolygonCommands, polygon \in PolygonShapes :
          LET wide == BitAnd(opcode, 32) = 0
              used == IF wide THEN 7 ELSE 5
              color == BitAnd(command, 63)
              filled == FillPolygon(pages, work_buffer, color, Point(x, y),
                                    polygon)
          IN /\ CanRead(used + 1)
             /\ wide \/ (x >= 0 /\ y >= 0)
             /\ bytecode_pos' = bytecode_pos + used
             /\ last_arg' = command
             /\ IF command < 192
                THEN /\ result' = "UnexpectedCommand"
                     /\ UNCHANGED <<pages, last_draw, phase, channel_id>>
                ELSE IF filled.panic
                THEN /\ result' = "Panic"
                     /\ UNCHANGED <<pages, last_draw, phase, channel_id>>
                ELSE /\ pages' = filled.pages
                     /\ last_draw' = [n |-> last_draw.n + 1, x |-> x, y |-> y,
                                      color |-> color,
                                      is_point |-> filled.is_point,
                                      point_pages |-> filled.point_pages]
                     /\ LoopTest(channels)
                     /\ UNCHANGED result
    /\ last_op' = "draw_sprite"
    /\ UNCHANGED <<variables, bg, unpacker, jnz_loop, slept, exit_status,
                   vm_rest, work_buffer, front_buffer, back_buffer,
                   palette_req, palette, shown, pal_hist>>

\* The engine loop running bytecode that selects and fills pages, draws
\* polygons and pauses.
DrawNext ==
    \/ update_part
    \/ check_channel_requests
    \/ host_frame
    \/ host_frame_done
    \/ run_channel_eof
    \/ op_yield_channel
    \/ op_select_video_page
    \/ op_fill_video_page
    \/ draw_sprite

DrawSpec == Init /\ [][DrawNext]_vars

\* ------------------------------------------------------------ unpacker
\* The packed entry is an input: the declared size and the tokens of the
\* bit stream are chosen by \E.  Declared sizes; the codes read by
\* get_code for a token's length or offset; the bytes of a literal.
UnpackSizes == 0 .. MaxUnpacked
UnpackCodes == {0, 1, 2}
LiteralBytes == {1, 2}
\* bank.rs:112, 119  decode_literal(bit_length, additional_length)
LiteralForms == {[bit_length |-> 3, additional_length |-> 0],
                 [bit_length |-> 8, additional_length |-> 8]}
\* bank.rs:114, 121, 124  decode_reference(bit_length, length): the
\* length of the third form is get_code(8) + 1
ReferenceForms ==
    {[bit_length |-> 8, length |-> 2], [bit_length |-> 9, length |-> 3],
     [bit_length |-> 10, length |-> 4]}
    \cup {[bit_length |-> 12, length |-> c + 1] : c \in UnpackCodes}

Reverse(s) == [i \in 1 .. Len(s) |-> s[Len(s) + 1 - i]]

\* bank.rs:74-77, 89-92  the bytes a token of `length` pushes to the output
Emitted(length, datasize) == length

RECURSIVE PushReferenced(_, _, _, _)
\* bank.rs:89-92  the loop of decode_reference from its i-th round on: each
\* round reads output[offset + i] of the output as it stands, 0 past its
\* end, and pushes it
PushReferenced(output, offset, i, length) ==
    IF i >= length THEN output
    ELSE LET at == (offset + i) % 65536
             data == IF at < Len(output) THEN output[at + 1] ELSE 0
         IN PushReferenced(Append(output, data), offset, i + 1, length)

\* bank.rs:88-92  the bytes decode_reference pushes
Referenced(output, offset, length) ==
    SubSeq(PushReferenced(output, offset, 0, length),
           Len(output) + 1, Len(output) + length)

\* bank.rs:97-104  Unpacker::unpack reads the declared size and the first
\* word of the stream
unpack_begin ==
    /\ unpacker.at = "idle"
    /\ \E size \in UnpackSizes :
          unpacker' = [at |-> "loop", size |-> size, datasize |-> size,
                       output |-> <<>>, token |-> NoToken]
    /\ UNCHANGED <<prog, phase, channel_id, result, ops_done, last_op,
                   last_arg, hist, stack_dropped, video, last_draw, bg,
                   jnz_loop, slept, exit_status>>

\* bank.rs:67-80  Unpacker::decode_literal, chosen at bank.rs:110-119
decode_literal ==
    /\ unpacker.at = "loop" /\ unpacker.datasize > 0
    /\ \E form \in LiteralForms, code \in UnpackCodes, data \in LiteralBytes :
          LET length == code + form.additional_length + 1
              pushed == Emitted(length, unpacker.datasize)
          IN unpacker' = [unpacker EXCEPT
                 !.output = @ \o [i \in 1 .. pushed |-> data],
                 !.datasize = @ - length,
                 !.token = [kind |-> "literal", code |-> code,
                            length |-> length]]
    /\ UNCHANGED <<prog, phase, channel_id, result, ops_done, last_op,
                   last_arg, hist, stack_dropped, video, last_draw, bg,
                   jnz_loop, slept, exit_status>>

\* bank.rs:82-95  Unpacker::decode_reference, chosen at bank.rs:110-124;
\* output.len() as u16 - code overflows for a code above the length: the
\* build with overflow checks panics, the other wraps
decode_reference ==
    /\ unpacker.at = "loop" /\ unpacker.datasize > 0
    /\ \E form \in ReferenceForms, code \in UnpackCodes :
          LET len == Len(unpacker.output)
              offset == (len - code) % 65536
              pushed == Emitted(form.length, unpacker.datasize)
              token == [kind |-> "reference", code |-> code,
                        length |-> form.length]
          IN \/ /\ code > len
                /\ unpacker' = [unpacker EXCEPT !.at = "panic",
                                                !.token = token]
             \/ unpacker' = [unpacker EXCEPT
                    !.output = @ \o Referenced(@, offset, pushed),
                    !.datasize = @ - form.length,
                    !.token = token]
    /\ UNCHANGED <<prog, phase, channel_id, result, ops_done, last_op,
                   last_arg, hist, stack_dropped, video, last_draw, bg,
                   jnz_loop, slept, exit_status>>

\* bank.rs:99-101, 145  a read of the packed entry hits its end
unpack_eof ==
    /\ \/ unpacker.at = "idle"
       \/ unpacker.at = "loop" /\ unpacker.datasize > 0
    /\ unpacker' = [unpacker EXCEPT !.at = "Io"]
    /\ UNCHANGED <<prog, phase, channel_id, result, ops_done, last_op,
                   last_arg, hist, stack_dropped, video, last_draw, bg,
                   jnz_loop, slept, exit_status>>

\* bank.rs:106-108, 129-130  the loop ends, the output is reversed
unpack_end ==
    /\ unpacker.at = "loop" /\ unpacker.datasize <= 0
    /\ unpacker' = [unpacker EXCEPT !.at = "done", !.output = Reverse(@)]
    /\ UNCHANGED <<prog, phase, channel_id, result, ops_done, last_op,
                   last_arg, hist, stack_dropped, video, last_draw, bg,
                   jnz_loop, slept, exit_status>>

\* BankReader::read_bank unpacking one packed entry.
UnpackNext ==
    \/ unpack_begin
    \/ decode_literal
    \/ decode_reference
    \/ unpack_eof
    \/ unpack_end

UnpackSpec == Init /\ [][UnpackNext]_vars

\* bank.rs:42-43  read_bank calls unpack and waits for its result: nothing
\* else runs meanwhile, so a step the unpacker can take is taken
UnpackLive == Init /\ [][UnpackNext]_vars /\ WF_vars(UnpackNext)

\* --------------------------------------------------- arithmetic opcodes
\* Variables the arithmetic opcodes work on, and the values they start
\* with: the ends of the i16 range, -1, 0 and two loop counts.
ArithVarIds == {5, 6}
ArithValues == {0 - 32768, 0 - 1, 0, 3, 7, 32767}
\* u16 immediates of ADD_CONST: 1, -1 and -32768.
ConstOperands == {1, 65535, 32768}
\* u16 targets of JNZ and COND_JMP: the start of the segment and 0x0010.
JumpTargets == {0, 16}

\* An arithmetic opcode is fetched.
InArithSlice == InSlice /\ ops_done < MaxArithOps

\* What an arithmetic opcode leaves alone.
arith_rest == <<channels, running_channel_id, stack, loaded_part,
                loaded_asset, part_to_load, hist, stack_dropped, video,
                last_draw, bg, unpacker, slept, exit_status>>

\* vm.rs:174, 349  dst += src and dst -= src on i16: an overflowing result
\* panics in a build with overflow checks and wraps in one without
Arith(op, variable_id, value) ==
    \/ /\ ~FitsI16(value)
       /\ result' = "Panic"
       /\ UNCHANGED <<variables, phase, channel_id>>
    \/ /\ variables' = [variables EXCEPT ![variable_id] = Wrap16(value)]
       /\ LoopTest(channels)
       /\ UNCHANGED result

\* vm.rs:170-176  opcode 2, ADD
op_add ==
    /\ InArithSlice /\ CanRead(3)
    /\ CountOp
    /\ bytecode_pos' = bytecode_pos + 3
    /\ \E dst_variable_id \in ArithVarIds, src_variable_id \in ArithVarIds :
          /\ last_arg' = dst_variable_id * 256 + src_variable_id
          /\ Arith("ADD", dst_variable_id,
                   variables[dst_variable_id] + variables[src_variable_id])
    /\ last_op' = "ADD"
    /\ jnz_loop' = NoLoop
    /\ UNCHANGED arith_rest

\* vm.rs:345-351  opcode 19, SUB
op_sub ==
    /\ InArithSlice /\ CanRead(3)
    /\ CountOp
    /\ bytecode_pos' = bytecode_pos + 3
    /\ \E dst_variable_id \in ArithVarIds, src_variable_id \in ArithVarIds :
          /\ last_arg' = dst_variable_id * 256 + src_variable_id
          /\ Arith("SUB", dst_variable_id,
                   variables[dst_variable_id] - variables[src_variable_id])
    /\ last_op' = "SUB"
    /\ jnz_loop' = NoLoop
    /\ UNCHANGED arith_rest

\* vm.rs:178-184  opcode 3, ADD_CONST: wrapping_add
op_add_const ==
    /\ InArithSlice /\ CanRead(4)
    /\ CountOp
    /\ bytecode_pos' = bytecode_pos + 4
    /\ \E variable_id \in ArithVarIds, value \in ConstOperands :
          /\ last_arg' = variable_id * 65536 + value
          /\ variables' = [variables EXCEPT
                 ![variable_id] = Wrap16(@ + ToI16(value))]
    /\ LoopTest(channels)
    /\ last_op' = "ADD_CONST"
    /\ jnz_loop' = NoLoop
    /\ UNCHANGED <<result, arith_rest>>

\* JNZ jumping while the decremented value is positive.
JnzJumps_positive(value) == value > 0

\* vm.rs:227  the test of JNZ on the decremented value
JnzJumps(value) == value # 0

\* History: the run of JNZs on variable_id goes on, or a new one starts.
JnzLoop(variable_id, old, jumped) ==
    IF jnz_loop.variable_id = variable_id /\ ~jnz_loop.fell
    THEN [jnz_loop EXCEPT !.jumps = IF jumped THEN @ + 1 ELSE @,
                          !.fell = ~jumped]
    ELSE [variable_id |-> variable_id, start |-> old,
          jumps |-> IF jumped THEN 1 ELSE 0, fell |-> ~jumped]

\* vm.rs:223-233  opcode 9, JNZ: the decrement is an i16 subtraction, it
\* panics or wraps at -32768; then op_jmp or the skip of the target reads
\* the u16
op_jnz ==
    /\ InArithSlice /\ CanRead(2)
    /\ CountOp
    /\ \E variable_id \in ArithVarIds, offset \in JumpTargets :
          LET old == variables[variable_id]
              new == Wrap16(old - 1)
          IN /\ last_arg' = variable_id * 65536 + offset
             /\ \/ /\ ~FitsI16(old - 1)
                   /\ result' = "Panic"
                   /\ bytecode_pos' = bytecode_pos + 2
                   /\ UNCHANGED <<variables, jnz_loop, phase, channel_id>>
                \/ /\ variables' = [variables EXCEPT ![variable_id] = new]
                   /\ IF ~CanRead(4)
                      THEN /\ result' = "Io"
                           /\ bytecode_pos' = SegmentLen
                           /\ UNCHANGED <<jnz_loop, phase, channel_id>>
                      ELSE /\ bytecode_pos' = IF JnzJumps(new) THEN offset
                                               ELSE bytecode_pos + 4
                           /\ jnz_loop' = JnzLoop(variable_id, old, JnzJumps(new))
                           /\ LoopTest(channels)
                           /\ UNCHANGED result
    /\ last_op' = "JNZ"
    /\ UNCHANGED arith_rest

\* Condition bytes of COND_JMP: the eight relations with an u8 immediate,
\* an i16 immediate and a variable; an unused bit set; both mode bits set.
CondBytes == (0 .. 7) \cup (64 .. 71) \cup (128 .. 135) \cup {8, 192}
\* The operand after the variable: a variable number, an u16, an u8.
CondOperands(opcode) ==
    IF BitAnd(opcode, 128) # 0 THEN ArithVarIds
    ELSE IF BitAnd(opcode, 64) # 0 THEN {7, 65535}
    ELSE {0, 7, 255}

\* COND_JMP with relation 2 read as a > b.
CondExpr_swapped(comparison, a, b) ==
    IF comparison = 0 THEN a = b
    ELSE IF comparison = 1 THEN a # b
    ELSE IF comparison = 2 THEN a > b
    ELSE IF comparison = 3 THEN b >= a
    ELSE IF comparison = 4 THEN a > b
    ELSE IF comparison = 5 THEN a >= b
    ELSE FALSE

\* vm.rs:247-256  the relation the low three bits choose
CondExpr(comparison, a, b) ==
    IF comparison = 0 THEN a = b
    ELSE IF comparison = 1 THEN a # b
    ELSE IF comparison = 2 THEN b > a
    ELSE IF comparison = 3 THEN b >= a
    ELSE IF comparison = 4 THEN a > b
    ELSE IF comparison = 5 THEN a >= b
    ELSE FALSE

\* The operands of a COND_JMP: condition byte, variable, operand, target.
CondArg(opcode, var, operand, offset) == <<opcode, var, operand, offset>>

\* vm.rs:235-265  opcode 10, COND_JMP
op_cond_jmp ==
    /\ InSlice /\ ops_done < MaxCondOps
    /\ CountOp
    /\ \E opcode \in CondBytes, var \in ArithVarIds, offset \in JumpTargets :
          \E operand \in CondOperands(opcode) :
             LET wide == BitAnd(opcode, 128) = 0 /\ BitAnd(opcode, 64) # 0
                 length == IF wide THEN 7 ELSE 6
                 a == IF BitAnd(opcode, 128) # 0 THEN variables[operand]
                      ELSE IF BitAnd(opcode, 64) # 0 THEN ToI16(operand)
                      ELSE operand
                 b == variables[var]
                 expr == CondExpr(BitAnd(opcode, 7), a, b)
             IN /\ CanRead(length)
                /\ last_arg' = CondArg(opcode, var, operand, offset)
                /\ bytecode_pos' = IF expr THEN offset
                                    ELSE bytecode_pos + length
    /\ LoopTest(channels)
    /\ last_op' = "COND_JMP"
    /\ UNCHANGED <<variables, result, jnz_loop, arith_rest>>

\* engine.rs:54-64 with the variables a bytecode prologue of MOV_CONSTs set
\* (restricted to ArithVarIds and 0xE4)
ArithInit ==
    /\ \E x \in ArithValues, y \in ArithValues :
          variables = [v \in ArithVarIds \cup {228} |->
                          IF v = 5 THEN x ELSE IF v = 6 THEN y ELSE 0]
    /\ channels = [c \in Channels |-> ChannelDefault]
    /\ running_channel_id = 0
    /\ stack = <<>>
    /\ bytecode_pos = 0
    /\ loaded_part = None
    /\ loaded_asset = {}
    /\ part_to_load = Some(16001)
    /\ phase = "update_part"
    /\ channel_id = 0
    /\ result = "Ok"
    /\ ops_done = 0
    /\ last_op = "init"
    /\ last_arg = 0
    /\ last_vec = [c \in Channels |-> NoVec]
    /\ kill_mark = [c \in Channels |-> "no"]
    /\ reset_mark = [c \in Channels |-> "no"]
    /\ yield_mark = [c \in Channels |-> None]
    /\ dispatched = {}
    /\ part_changed = FALSE
    /\ req_part = Some(16001)
    /\ stack_dropped = 0
    /\ VideoNew
    /\ UnpackerNew
    /\ jnz_loop = NoLoop
    /\ slept = NoSleep
    /\ exit_status = None

\* The engine loop running bytecode made of ADD, SUB, ADD_CONST, JNZ and
\* PAUSE_THREAD.
ArithNext ==
    \/ update_part
    \/ check_channel_requests
    \/ host_frame
    \/ host_frame_done
    \/ run_channel_eof
    \/ op_yield_channel
    \/ op_add
    \/ op_sub
    \/ op_add_const
    \/ op_jnz

ArithSpec == ArithInit /\ [][ArithNext]_vars

\* The engine loop running bytecode made of COND_JMP and PAUSE_THREAD.
CondNext ==
    \/ update_part
    \/ check_channel_requests
    \/ host_frame
    \/ host_frame_done
    \/ run_channel_eof
    \/ op_yield_channel
    \/ op_cond_jmp

CondSpec == ArithInit /\ [][CondNext]_vars

\* ------------------------------------------------------------ line fills
\* Colours of a line: one below 0x10 (draw_line_normal), 0x10
\* (draw_line_blend) and one above (draw_line_from_bg).
LineColors == {1, 16, 17}
\* Colours FILL_VIDEO_PAGE has left in page 0, and in the other pages.
BgFills == {0, 5}
OtherFill == 3

\* engine.rs:54-64 and the pages after FILL_VIDEO_PAGEs and a
\* SELECT_VIDEO_PAGE: page 0 filled with one colour, pages 1..3 with
\* another, any of the four the work page
LineInit ==
    /\ variables = [v \in VarIds |-> 0]
    /\ channels = [c \in Channels |-> ChannelDefault]
    /\ running_channel_id = 0
    /\ stack = <<>>
    /\ bytecode_pos = 0
    /\ loaded_part = None
    /\ loaded_asset = {}
    /\ part_to_load = Some(16001)
    /\ phase = "update_part"
    /\ channel_id = 0
    /\ result = "Ok"
    /\ ops_done = 0
    /\ last_op = "init"
    /\ last_arg = 0
    /\ last_vec = [c \in Channels |-> NoVec]
    /\ kill_mark = [c \in Channels |-> "no"]
    /\ reset_mark = [c \in Channels |-> "no"]
    /\ yield_mark = [c \in Channels |-> None]
    /\ dispatched = {}
    /\ part_changed = FALSE
    /\ req_part = Some(16001)
    /\ stack_dropped = 0
    /\ \E color \in BgFills :
          pages = FillPage([g \in PageIndices |->
                               [i \in PageBytes |-> ByteColor(OtherFill)]],
                           0, color)
    /\ work_buffer \in PageIndices
    /\ front_buffer = 2
    /\ back_buffer = 1
    /\ palette_req = Keep
    /\ palette = None
    /\ shown = None
    /\ pal_hist = <<"loaded", 0>>
    /\ last_draw = [n |-> 0, x1 |-> 0, x2 |-> 0, y |-> 0, color |-> 0]
    /\ bg = None
    /\ UnpackerNew
    /\ jnz_loop = NoLoop
    /\ slept = NoSleep
    /\ exit_status = None

\* video.rs:266-270  one scan line of fill_polygon: hline_y is on the page
\* and the endpoints are clipped to it (video.rs:261-265)
draw_line ==
    /\ result = "Ok" /\ last_draw.n < MaxLines
    /\ \E x1 \in 0 .. WIDTH - 1, x2 \in 0 .. WIDTH - 1,
          hline_y \in 0 .. HEIGHT - 1, color \in LineColors :
          LET st == [pages |-> pages, hline_y |-> hline_y, done |-> FALSE,
                     panic |-> FALSE]
              drawn == DrawLine(st, work_buffer, x1, x2, color)
          IN /\ last_draw' = [n |-> last_draw.n + 1, x1 |-> x1, x2 |-> x2,
                              y |-> hline_y, color |-> color]
             /\ IF drawn.panic
                THEN result' = "Panic" /\ UNCHANGED pages
                ELSE pages' = drawn.pages /\ UNCHANGED result
    /\ last_op' = "draw_line"
    /\ UNCHANGED <<prog, phase, channel_id, ops_done, last_arg, hist,
                   stack_dropped, work_buffer, front_buffer, back_buffer,
                   palette_req, palette, shown, pal_hist, bg, unpacker,
                   jnz_loop, slept, exit_status>>

LineNext == draw_line

LineSpec == LineInit /\ [][LineNext]_vars

\* ------------------------------------------------------------ the process
\* main.rs:18-21  main logs the error Engine::run returned and returns, the
\* process ending with the status of a returning main; a panic unwinding
\* out of main ends it with the status of the Rust runtime
ExitStatus(run_result) == IF run_result = "Panic" THEN 101 ELSE 0

\* main.rs:14-23  main after Engine::run has stopped (engine.rs:66-70 leaves
\* the loop only through a `?`)
main_exit ==
    /\ result # "Ok" /\ exit_status = None
    /\ exit_status' = Some(ExitStatus(result))
    /\ UNCHANGED <<prog, phase, channel_id, result, ops_done, last_op,
                   last_arg, hist, stack_dropped, video, last_draw, bg,
                   unpacker, jnz_loop, slept>>

\* The process: the engine loop running bytecode that loads resources,
\* returns and yields, and main ending the process when the loop stops.
MainNext ==
    \/ update_part
    \/ update_part_fails
    \/ check_channel_requests
    \/ host_frame
    \/ host_frame_done
    \/ run_channel_eof
    \/ run_channel_bad_opcode
    \/ op_ret
    \/ op_yield_channel
    \/ op_update_mem_list
    \/ op_update_mem_list_fails
    \/ main_exit

MainSpec == Init /\ [][MainNext]_vars

\* ------------------------------------------------------------ claims
\* The step just taken ran an opcode handler of the running channel.
OpcodeNames ==
    {"MOV_CONST", "CALL", "RET", "PAUSE_THREAD", "JMP", "SET_VEC",
     "RESET_THREADS", "KILL_THREAD", "UPDATE_MEM_LIST"}
OpcodeStep == ops_done' = ops_done + 1
\* The state the commit step leaves: the frame boundary, before channel 0
\* is considered.
AtBoundary == phase = "host_frame" /\ last_op = "check_channel_requests"

\* C1: a SET_VEC changes no channel's state and no channel's pc field, it
\* only stages next_pc; the commit step seats every channel that has a Valid
\* offset staged (Ready, pc = that offset); and no opcode changes the pc
\* field of a channel other than the running one.
C1_SetVecDeferred ==
    [][ /\ (OpcodeStep /\ last_op' = "SET_VEC" /\ result' = "Ok") =>
              /\ \A c \in Channels :
                    /\ channels'[c].state = channels[c].state
                    /\ channels'[c].pc = channels[c].pc
              /\ \E c \in Channels :
                    /\ last_vec'[c].last # None
                    /\ channels'[c].next_pc = Some(ProcessCounterFrom(last_vec'[c].last[2]))
                    /\ \A d \in Channels \ {c} : channels'[d] = channels[d]
        /\ (phase = "check_channel_requests" /\ phase' = "host_frame") =>
              \A c \in Channels :
                 (channels[c].next_pc # None /\ IsValid(channels[c].next_pc[2])) =>
                     /\ channels'[c].state = "Ready"
                     /\ channels'[c].pc = channels[c].next_pc[2]
        /\ OpcodeStep =>
              \A c \in Channels \ {running_channel_id} :
                 channels'[c].pc = channels[c].pc
      ]_vars

\* C1 witness: the commit step has seated channel 1 at the offset 0 that a
\* SET_VEC of the frame before staged.
C1_Witness ==
    /\ AtBoundary /\ ~part_changed
    /\ last_vec[1].last = Some(0)
    /\ channels[1].state = "Ready" /\ channels[1].pc = Valid(0)

\* C2 as stated: at the frame boundary every channel targeted by a SET_VEC
\* of the frame has the pc of the last such SET_VEC.
C2_LastWriterWins_AnyOpcodes ==
    AtBoundary =>
       \A c \in Channels :
          last_vec[c].last # None =>
             channels[c].pc = ProcessCounterFrom(last_vec[c].last[2])

\* C2 amended: at the frame boundary every channel targeted by a SET_VEC of
\* the frame has the pc of the last such SET_VEC, provided no RESET_THREADS
\* with an action other than 0 and 1 covered the channel after that SET_VEC
\* and the boundary applied no part change.
C2_LastWriterWins ==
    (AtBoundary /\ ~part_changed) =>
       \A c \in Channels :
          (last_vec[c].last # None /\ ~last_vec[c].overridden) =>
             channels[c].pc = ProcessCounterFrom(last_vec[c].last[2])

\* C2 witness: a channel targeted by several SET_VECs in one frame sits at
\* the last offset after the commit step.
C2_Witness ==
    /\ AtBoundary /\ ~part_changed
    /\ \E c \in Channels :
          /\ last_vec[c].writes = 2 /\ ~last_vec[c].overridden
          /\ last_vec[c].last = Some(65533)
          /\ channels[c].pc = Valid(65533)

\* C3 as stated: a channel that executed KILL_THREAD in the frame before is
\* Dead at the frame boundary and is not dispatched in the tick after it.
C3_KilledStaysDead_AnyOpcodes ==
    /\ AtBoundary =>
          \A c \in Channels :
             kill_mark[c] \in {"prev", "prev_reset", "prev_clean"} =>
                channels[c].state = "Dead"
    /\ last_op = "dispatch" =>
          kill_mark[running_channel_id] \notin {"prev", "prev_reset", "prev_clean"}

\* C3 amended: KILL_THREAD leaves the channel Dead with pc Invalid; if the
\* commit step finds no Valid next_pc staged for it and no part change seats
\* it (channel 0), its pc is Invalid at the frame boundary and it is not
\* dispatched in the next tick; if moreover no RESET_THREADS with action 0 or
\* 1 covered it after the kill, its state at the boundary is Dead.
C3_KilledStaysDead ==
    /\ last_op = "KILL_THREAD" =>
          /\ channels[running_channel_id].state = "Dead"
          /\ channels[running_channel_id].pc = Invalid
    /\ AtBoundary =>
          \A c \in Channels :
             /\ kill_mark[c] \in {"prev_reset", "prev_clean"} =>
                   channels[c].pc = Invalid
             /\ kill_mark[c] = "prev_clean" => channels[c].state = "Dead"
    /\ last_op = "dispatch" =>
          kill_mark[running_channel_id] \notin {"prev_reset", "prev_clean"}

\* C3 witness: the tick after the kill passes over the killed channel.
C3_Witness ==
    /\ phase = "host_frame" /\ last_op = "skip"
    /\ \E c \in Channels :
          /\ channel_id = c + 1
          /\ kill_mark[c] = "prev_clean"
          /\ channels[c].state = "Dead"

\* C4: at most one channel is Running, it is channel running_channel_id,
\* and outside a slice (part change, commit, between two slices of a tick)
\* no channel is Running.
C4_OneRunning ==
    /\ Cardinality({c \in Channels : channels[c].state = "Running"}) <= 1
    /\ \A c \in Channels :
          channels[c].state = "Running" => c = running_channel_id
    /\ phase # "run_channel" =>
          \A c \in Channels : channels[c].state # "Running"

\* C4 witness: inside a slice a RESET_THREADS has just made another channel
\* Ready while the running channel goes on.
C4_Witness ==
    /\ phase = "run_channel" /\ result = "Ok" /\ last_op = "RESET_THREADS"
    /\ channels[running_channel_id].state = "Running"
    /\ \E c \in Channels \ {running_channel_id} : channels[c].state = "Ready"

\* C5 as stated: when a slice has returned without error, the channel that
\* was running is Ready or Dead.
C5_SliceEndsReadyOrDead ==
    (phase = "host_frame" /\ result = "Ok" /\ last_op \in OpcodeNames) =>
       channels[running_channel_id].state \in {"Ready", "Dead"}

\* C6 as stated: right after PAUSE_THREAD the channel that executed it is
\* Paused.
C6_PauseSetsPaused ==
    last_op = "PAUSE_THREAD" => channels[running_channel_id].state = "Paused"

\* C6 amended: PAUSE_THREAD stores the cursor position just after the opcode
\* as the running channel's pc, sets its state to Ready (Dead, with pc
\* Invalid, when that position is 0xFFFE or more), and ends its slice.
C6_PauseCommitsPc ==
    last_op = "PAUSE_THREAD" =>
       /\ channels[running_channel_id].pc =
             (IF bytecode_pos >= 65534 THEN Invalid ELSE Valid(bytecode_pos))
       /\ channels[running_channel_id].state =
             (IF bytecode_pos >= 65534 THEN "Dead" ELSE "Ready")
       /\ phase = "host_frame" /\ channel_id = running_channel_id + 1

\* C6 witness: a channel has paused after a four-byte opcode.
C6_Witness ==
    /\ last_op = "PAUSE_THREAD" /\ bytecode_pos = 5
    /\ channels[running_channel_id].state = "Ready"
    /\ channels[running_channel_id].pc = Valid(5)

\* C7 as stated: a slice that has returned without error was ended by
\* PAUSE_THREAD or KILL_THREAD.
C7_OnlyPauseOrKillEndSlice ==
    (phase = "host_frame" /\ result = "Ok" /\ last_op \in OpcodeNames) =>
       last_op \in {"PAUSE_THREAD", "KILL_THREAD"}

\* C8: in a tick the channels are considered in increasing id order, one
\* per iteration; the channel considered is dispatched exactly when it is
\* Ready with a Valid pc, from that pc, and never twice in a tick.
C8_DispatchOrder ==
    [][ /\ (phase' = "run_channel" /\ phase # "run_channel") =>
              /\ phase = "host_frame"
              /\ channels[channel_id].state = "Ready"
              /\ IsValid(channels[channel_id].pc)
              /\ channel_id \notin dispatched
              /\ channel_id' = channel_id
              /\ running_channel_id' = channel_id
              /\ bytecode_pos' = channels[channel_id].pc[2]
              /\ \A c \in dispatched : c < channel_id
        /\ (phase = "host_frame" /\ phase' = "host_frame") =>
              /\ channel_id' = channel_id + 1
              /\ ~(channels[channel_id].state = "Ready"
                   /\ IsValid(channels[channel_id].pc))
              /\ channels' = channels
        /\ (phase = "run_channel" /\ phase' = "host_frame") =>
              channel_id' = channel_id + 1
        /\ (phase = "run_channel" /\ phase' = "run_channel") =>
              /\ channel_id' = channel_id
              /\ running_channel_id' = running_channel_id
        /\ (phase = "host_frame" /\ phase' = "update_part") =>
              channel_id = NUM_CHANNELS
        /\ phase' = "host_frame" => channel_id' \in 0 .. NUM_CHANNELS
      ]_vars

\* C8 witness: channel 1 is dispatched after channel 0 in the same tick.
C8_Witness ==
    /\ last_op = "dispatch" /\ running_channel_id = 1
    /\ dispatched = {0, 1}

\* C9: UPDATE_MEM_LIST with a game-part id only stages the request (the
\* loaded part, the channels and the variables are unchanged and the slice
\* goes on); the loaded part changes only in the part-change step, which
\* loads the last part requested and clears the request.
C9_PartChangeDeferred ==
    [][ /\ (OpcodeStep /\ last_op' = "UPDATE_MEM_LIST" /\ IsGamePart(last_arg')) =>
              /\ part_to_load' = Some(last_arg')
              /\ loaded_part' = loaded_part
              /\ channels' = channels
              /\ variables' = variables
              /\ result' = "Ok" /\ phase' = "run_channel"
        /\ loaded_part' # loaded_part => phase = "update_part"
        /\ (phase = "update_part" /\ phase' = "check_channel_requests") =>
              /\ part_to_load' = None
              /\ IF req_part # None
                 THEN loaded_part' = req_part /\ part_changed'
                 ELSE loaded_part' = loaded_part /\ ~part_changed'
      ]_vars

\* C9 witness: a later channel of the tick is dispatched into the bytecode
\* of the old part while a request staged by an earlier channel is pending.
C9_Witness ==
    /\ phase = "run_channel" /\ running_channel_id = 1
    /\ last_op = "dispatch" /\ 0 \in dispatched
    /\ part_to_load = Some(16000) /\ loaded_part = Some(16001)

\* C10: the part-change step leaves channel 0 Ready at Valid(0), every other
\* channel Dead with pc Invalid, no next_pc staged and vars[0xE4] = 0x14;
\* the tick after it dispatches channel 0 first, from offset 0.
C10_PartChangeResets ==
    /\ (last_op \in {"update_part", "update_part_fails"}
        /\ (part_changed \/ result # "Ok")) =>
          /\ channels[0] = [state |-> "Ready", pc |-> Valid(0), next_pc |-> None]
          /\ \A c \in Channels \ {0} :
                channels[c] = [state |-> "Dead", pc |-> Invalid, next_pc |-> None]
          /\ variables[228] = 20
    /\ (part_changed /\ AtBoundary) =>
          channels[0] = [state |-> "Ready", pc |-> Valid(0), next_pc |-> None]
    /\ (part_changed /\ phase \in {"host_frame", "run_channel"}
        /\ last_op # "check_channel_requests") =>
          0 \in dispatched
    /\ (part_changed /\ last_op = "dispatch" /\ running_channel_id = 0) =>
          bytecode_pos = 0

\* C10 witness: a part change has discarded a request that a SET_VEC of the
\* frame before staged for channel 1.
C10_Witness ==
    /\ last_op = "update_part" /\ part_changed
    /\ last_vec[1].last = Some(0) /\ ~last_vec[1].overridden
    /\ channels[1].next_pc = None

\* Results a handler or the engine returns as a failure.
Failures ==
    {"Io", "StackUnderflow", "InvalidGamePart", "ResourceError",
     "InvalidPalette", "RendererError"}

\* C11: every step of the engine starts from a state without failure, so
\* that once a handler has failed nothing runs any more: no opcode, no
\* dispatch of a later channel, no part change, commit or tick; the step
\* that fails leaves the engine where it was, with the failure as result.
C11_FailureHalts ==
    [][ /\ result = "Ok"
        /\ result' # "Ok" =>
              /\ phase' = phase
              /\ channel_id' = channel_id
              /\ running_channel_id' = running_channel_id
      ]_vars

\* C11 witness: a handler of channel 0 has failed while channel 1 was ready
\* to be dispatched and opcodes were left to run.
C11_Witness ==
    /\ result \in Failures
    /\ phase = "run_channel" /\ running_channel_id = 0 /\ channel_id = 0
    /\ Dispatchable(channels[1])
    /\ ops_done < MaxOps

\* C12 as stated: no instruction aborts the interpreter outside the result
\* path (no panic), whatever the opcode byte and the operand bytes.
C12_NoAbort == result # "Panic"

\* C13: a dispatch leaves the stack empty whatever earlier slices pushed,
\* only CALL makes the stack grow, and a RET that finds it empty fails with
\* stack underflow without seeking (the cursor stays just after the opcode)
\* and without changing any channel.
C13_StackClearedAtDispatch ==
    [][ /\ (phase = "host_frame" /\ phase' = "run_channel") => stack' = <<>>
        /\ (OpcodeStep /\ last_op' # "CALL") => Len(stack') <= Len(stack)
        /\ (OpcodeStep /\ last_op' = "RET" /\ stack = <<>>) =>
              /\ result' = "StackUnderflow"
              /\ bytecode_pos' = bytecode_pos + 1
              /\ channels' = channels
              /\ stack' = <<>>
      ]_vars

\* C13 witness: a RET has failed in a slice whose dispatch dropped a return
\* address that an earlier slice had pushed.
C13_Witness ==
    /\ last_op = "RET" /\ result = "StackUnderflow"
    /\ stack_dropped > 0
    /\ stack = <<>>

\* C14 as stated: every channel whose pc is Valid(p) has p below the length
\* of the loaded bytecode segment.
C14_ValidPcInsideSegment ==
    \A c \in Channels :
       IsValid(channels[c].pc) => channels[c].pc[2] < SegmentLen

\* C15: SET_VEC(c, pc) stages Invalid when pc is 0xFFFE or 0xFFFF and
\* Valid(pc) otherwise; the commit step turns a staged Invalid into state
\* Dead with pc Invalid; and no channel is dispatched with pc Invalid.
C15_SentinelRoundTrip ==
    [][ /\ (OpcodeStep /\ last_op' = "SET_VEC" /\ result' = "Ok") =>
              \E c \in Channels :
                 /\ last_vec'[c].last # None
                 /\ channels'[c].next_pc =
                       (IF last_vec'[c].last[2] \in {65534, 65535}
                        THEN Some(Invalid)
                        ELSE Some(Valid(last_vec'[c].last[2])))
                 /\ \A d \in Channels \ {c} : channels'[d] = channels[d]
        /\ (phase = "check_channel_requests" /\ phase' = "host_frame") =>
              \A c \in Channels :
                 channels[c].next_pc = Some(Invalid) =>
                    channels'[c] = [state |-> "Dead", pc |-> Invalid,
                                    next_pc |-> None]
        /\ (phase = "host_frame" /\ phase' = "run_channel") =>
              channels[running_channel_id'].pc # Invalid
      ]_vars

\* C15 witness: channel 0, which ran SET_VEC(0, 0xFFFF) and paused, is Dead
\* with pc Invalid after the commit step.
C15_Witness ==
    /\ AtBoundary /\ ~part_changed
    /\ last_vec[0].last = Some(65535)
    /\ kill_mark[0] = "no"
    /\ channels[0] = [state |-> "Dead", pc |-> Invalid, next_pc |-> None]

\* The page a raw page byte designates: 0xFE the front page, 0xFF the back
\* page, 0..3 themselves, every other byte page 0.
DesignatedPage(raw, front, back) ==
    IF raw = 254 THEN front
    ELSE IF raw = 255 THEN back
    ELSE IF raw \in 0 .. 3 THEN raw
    ELSE 0

\* C16: the work, front and back indices are always in 0..3; resolving a
\* page byte never fails in SELECT_VIDEO_PAGE, FILL_VIDEO_PAGE and
\* BLIT_FRAME_BUFFER; SELECT_VIDEO_PAGE makes the designated page the work
\* page and FILL_VIDEO_PAGE fills the designated page.
C16_PageIndicesInRange ==
    /\ work_buffer \in 0 .. 3
    /\ front_buffer \in 0 .. 3
    /\ back_buffer \in 0 .. 3
    /\ last_op \in {"SELECT_VIDEO_PAGE", "FILL_VIDEO_PAGE", "BLIT_FRAME_BUFFER"}
          => result # "Panic"
    /\ last_op = "SELECT_VIDEO_PAGE" =>
          work_buffer = DesignatedPage(last_arg, front_buffer, back_buffer)
    /\ last_op = "FILL_VIDEO_PAGE" =>
          \A i \in PageBytes :
             pages[DesignatedPage(last_arg \div 256, front_buffer, back_buffer)][i]
                = 17 * (last_arg % 256)

\* C16 witness: after a swap of front and back, selecting 0xFE has made the
\* new front page the work page.
C16_Witness ==
    /\ last_op = "SELECT_VIDEO_PAGE" /\ last_arg = 254
    /\ front_buffer = 1 /\ back_buffer = 2
    /\ work_buffer = 1

\* C17: a BLIT_FRAME_BUFFER that has read its page byte exchanges front and
\* back for 0xFF, keeps both for 0xFE, and for any other byte makes the
\* designated numbered page the front page and keeps back; it keeps the
\* work index; and the page it has the renderer draw is the new front page.
C17_BlitSwapsBeforeDisplay ==
    [][ (OpcodeStep /\ last_op' = "BLIT_FRAME_BUFFER" /\ result' # "Io") =>
           /\ last_arg' = 255 =>
                 front_buffer' = back_buffer /\ back_buffer' = front_buffer
           /\ last_arg' = 254 =>
                 front_buffer' = front_buffer /\ back_buffer' = back_buffer
           /\ last_arg' \notin {254, 255} =>
                 /\ front_buffer' = (IF last_arg' \in 0 .. 3 THEN last_arg' ELSE 0)
                 /\ back_buffer' = back_buffer
           /\ work_buffer' = work_buffer
           /\ result' = "Ok" => shown' = Some(front_buffer')
           /\ (result' = "Ok" /\ last_arg' = 255) => shown' = Some(back_buffer)
      ]_vars

\* C17 witness: from front = 2, back = 1 the blit of 0xFF has shown page 1.
C17_Witness ==
    /\ last_op = "BLIT_FRAME_BUFFER" /\ last_arg = 255 /\ result = "Ok"
    /\ ops_done = 1
    /\ front_buffer = 1 /\ back_buffer = 2
    /\ shown = Some(1)

\* C18: SET_PALETTE(p) leaves the renderer's palette alone and records the
\* request p >> 8 (replacing an earlier one); the palette changes only in a
\* BLIT_FRAME_BUFFER; a blit that succeeds loads the palette requested, if
\* any, and clears the request; a blit that finds a request of 32 or more
\* fails with invalid-palette and loads nothing.
C18_PaletteDeferred ==
    [][ /\ (OpcodeStep /\ last_op' = "SET_PALETTE") =>
              /\ palette' = palette
              /\ palette_req' = Change(last_arg' \div 256)
        /\ palette' # palette => last_op' = "BLIT_FRAME_BUFFER"
        /\ (OpcodeStep /\ last_op' = "BLIT_FRAME_BUFFER" /\ result' = "Ok") =>
              /\ palette_req' = Keep
              /\ palette' = (IF palette_req = Keep THEN palette
                             ELSE Some(palette_req[2]))
        /\ (OpcodeStep /\ last_op' = "BLIT_FRAME_BUFFER" /\ result' # "Io"
            /\ palette_req # Keep) =>
              IF palette_req[2] >= 32
              THEN result' = "InvalidPalette" /\ palette' = palette
              ELSE result' # "InvalidPalette"
      ]_vars

\* C18 witness: a blit has loaded palette 2, the last of two requests made
\* since the blit before.
C18_Witness ==
    /\ last_op = "BLIT_FRAME_BUFFER" /\ result = "Ok"
    /\ pal_hist = <<"loaded", 2>>
    /\ palette = Some(2) /\ palette_req = Keep

\* C19 as stated: a COPY_VIDEO_PAGE whose source and destination bytes
\* designate the same page completes without failure and changes no page.
C19_CopySamePageNoOp ==
    [][ (OpcodeStep /\ last_op' = "COPY_VIDEO_PAGE"
         /\ DesignatedPage(last_arg' \div 256, front_buffer, back_buffer)
            = DesignatedPage(last_arg' % 256, front_buffer, back_buffer)) =>
           /\ result' = "Ok"
           /\ pages' = pages
      ]_vars

\* The destination page after a copy shifted down by vscroll rows (up for
\* a negative vscroll): the rows shifted in keep what the destination had.
ScrolledCopy(src_page, dst_page, vscroll) ==
    [i \in PageBytes |->
        LET row == (i \div HalfWidth) - vscroll
        IN IF row >= 0 /\ row < HEIGHT
           THEN src_page[row * HalfWidth + (i % HalfWidth)]
           ELSE dst_page[i]]

\* C20 as stated: a COPY_VIDEO_PAGE s, d that completes makes page d, for a
\* numbered s with bit 0x80 set and |vars[0xF9]| < HEIGHT, the page s & 3
\* shifted by vars[0xF9] rows, and for an s without the marker a copy of
\* the source page; the other pages are unchanged.
C20_CopyScrolls ==
    [][ (OpcodeStep /\ last_op' = "COPY_VIDEO_PAGE" /\ result' = "Ok") =>
           LET s == last_arg' \div 256
               d == DesignatedPage(last_arg' % 256, front_buffer, back_buffer)
           IN /\ \A g \in PageIndices \ {d} : pages'[g] = pages[g]
              /\ (s >= 128 /\ s < 254 /\ s % 4 # d
                  /\ Abs(variables[249]) < HEIGHT) =>
                    pages'[d] = ScrolledCopy(pages[s % 4], pages[d],
                                             variables[249])
              /\ s < 128 =>
                    pages'[d] = pages[DesignatedPage(s, front_buffer, back_buffer)]
      ]_vars

\* The nibble of a page byte that holds pixel x, and the other one.
PixelNibble(byte, x) == IF x % 2 = 0 THEN byte \div 16 ELSE byte % 16
OtherNibble(byte, x) == IF x % 2 = 0 THEN byte % 16 ELSE byte \div 16
OnScreen(x, y) == x \in 0 .. WIDTH - 1 /\ y \in 0 .. HEIGHT - 1

\* C21: the single-pixel draw at (x, y) changes nothing when the point is
\* off the page; otherwise it changes at most the nibble of pixel x in the
\* byte y * HalfWidth + x / 2 of the work page, and the new nibble is the
\* colour below 0x10, the old nibble OR 8 for colour 0x10, and the nibble of
\* page 0 at the same place for every colour from 0x11 up.
C21_DrawPointOneNibble ==
    [][(last_draw'.n # last_draw.n /\ last_draw'.is_point) =>
        LET x == last_draw'.x
            y == last_draw'.y
            color == last_draw'.color
            after == last_draw'.point_pages
            offset == y * HalfWidth + (x \div 2)
        IN IF ~OnScreen(x, y)
           THEN after = pages
           ELSE /\ \A g \in PageIndices, i \in PageBytes :
                      (g # work_buffer \/ i # offset) => after[g][i] = pages[g][i]
                /\ OtherNibble(after[work_buffer][offset], x)
                     = OtherNibble(pages[work_buffer][offset], x)
                /\ PixelNibble(after[work_buffer][offset], x)
                     = IF color < 16 THEN color
                       ELSE IF color = 16
                       THEN BitOr(PixelNibble(pages[work_buffer][offset], x), 8)
                       ELSE PixelNibble(pages[0][offset], x)
      ]_vars

\* C22: filling the degenerate polygon (bbw = 0, bbh = 1, four points) at a
\* reference point on the page changes at most the nibble of pixel x in the
\* byte y * HalfWidth + x / 2 of the work page, and nothing else.
C22_PointPolygonOneNibble ==
    [][(last_draw'.n # last_draw.n /\ last_draw'.is_point
        /\ OnScreen(last_draw'.x, last_draw'.y)) =>
        LET x == last_draw'.x
            offset == last_draw'.y * HalfWidth + (x \div 2)
        IN /\ \A g \in PageIndices, i \in PageBytes :
                  (g # work_buffer \/ i # offset) => pages'[g][i] = pages[g][i]
           /\ OtherNibble(pages'[work_buffer][offset], x)
                = OtherNibble(pages[work_buffer][offset], x)
      ]_vars

\* The page the four planes of a polygon segment describe: the value of
\* pixel (x, y) has the bit of plane p for that pixel as its bit p.
PixelOfPlanes(blob, x, y) ==
    LET bit(p) == PlaneBit(blob[p * PlaneOffset + y * BytesPerRow
                                + (x \div PlaneBits) + 1], x % PlaneBits)
    IN 8 * bit(3) + 4 * bit(2) + 2 * bit(1) + bit(0)
Deinterleaved(blob) ==
    [i \in PageBytes |->
        LET y == i \div HalfWidth
            x == 2 * (i % HalfWidth)
        IN 16 * PixelOfPlanes(blob, x, y) + PixelOfPlanes(blob, x + 1, y)]

\* C23: after a part load whose polygon segment is present, page 0 holds
\* the deinterleaved background: every pixel's value is assembled from its
\* bit in each of the four planes; in particular a blank page 0 is changed
\* by a segment that is not all zero.
C23_BackgroundDeinterleaved ==
    [][(last_op' = "update_part" /\ result' = "Ok" /\ bg' # None) =>
        /\ pages'[0] = Deinterleaved(bg'[2])
        /\ ((\E k \in DOMAIN bg'[2] : bg'[2][k] # 0)
            /\ (\A i \in PageBytes : pages[0][i] = 0)) => pages'[0] # pages[0]
      ]_vars

\* C24: an unpacking that completes returns exactly as many bytes as the
\* entry declares: the token that brings the remaining size to zero or
\* below does not make the output longer than the declared size.
C24_UnpackedLength ==
    unpacker.at = "done" => Len(unpacker.output) = unpacker.size

\* The relation the low three bits of a condition byte name.
Relation(comparison, a, b) ==
    \/ comparison = 0 /\ a = b
    \/ comparison = 1 /\ a # b
    \/ comparison = 2 /\ b > a
    \/ comparison = 3 /\ b >= a
    \/ comparison = 4 /\ a > b
    \/ comparison = 5 /\ a >= b

\* C25: a COND_JMP with condition byte c, variable var, operand and u16
\* target compares a (vars[operand] when bit 0x80 of c is set, else the
\* operand as an i16 when bit 0x40 is set, else the u8 operand zero-extended)
\* with b = vars[var]; pc becomes the target exactly when the relation of
\* c's low three bits holds and is otherwise the offset just after the
\* target; relations 6 and 7 never jump; no variable changes.
C25_CondJmpRelation ==
    [][(OpcodeStep /\ last_op' = "COND_JMP" /\ result' = "Ok") =>
         LET c == last_arg'[1]
             var == last_arg'[2]
             operand == last_arg'[3]
             target == last_arg'[4]
             by_variable == (c \div 128) % 2 = 1
             by_word == ~by_variable /\ (c \div 64) % 2 = 1
             a == IF by_variable THEN variables[operand]
                  ELSE IF by_word
                       THEN (IF operand > 32767 THEN operand - 65536 ELSE operand)
                       ELSE operand
             b == variables[var]
             after == bytecode_pos + (IF by_word THEN 7 ELSE 6)
         IN /\ bytecode_pos' = IF Relation(c % 8, a, b) THEN target ELSE after
            /\ (c % 8 \in {6, 7} => bytecode_pos' = after)
            /\ variables' = variables]_vars

\* C25 witness: a COND_JMP with bytes 00 05 07 00 10 (relation 0, u8
\* immediate 7, target 0x0010) has run with vars[5] = 7 and pc is 0x0010.
C25_Witness ==
    /\ last_op = "COND_JMP" /\ result = "Ok"
    /\ last_arg = <<0, 5, 7, 16>>
    /\ variables[5] = 7
    /\ bytecode_pos = 16

\* C26: a JNZ on vars[v] above -32768 lowers vars[v] by one, changes no
\* other variable, and sets pc to the target exactly when the lowered value
\* is not zero, else to the offset just after the operand; so a run of JNZs
\* on v that began with vars[v] = n, 1 <= n <= 32767, has jumped n - 1 times
\* when it falls through, with vars[v] = 0, and one that began with 0 jumps.
C26_JnzCountsDown ==
    [][(OpcodeStep /\ last_op' = "JNZ" /\ result' = "Ok") =>
         LET v == last_arg' \div 65536
             target == last_arg' % 65536
         IN /\ variables[v] > 0 - 32768 =>
                 /\ variables' = [variables EXCEPT ![v] = variables[v] - 1]
                 /\ bytecode_pos' = IF variables'[v] # 0 THEN target
                                     ELSE bytecode_pos + 4
            /\ (variables[v] = 0 => bytecode_pos' = target /\ variables'[v] = 0 - 1)
            /\ (jnz_loop'.fell /\ jnz_loop'.start >= 1) =>
                 /\ jnz_loop'.jumps = jnz_loop'.start - 1
                 /\ variables'[jnz_loop'.variable_id] = 0
                 /\ bytecode_pos' = bytecode_pos + 4]_vars

\* C26 witness: a run of JNZs that began with vars[v] = 3 has jumped twice
\* and then fallen through with vars[v] = 0.
C26_Witness ==
    /\ last_op = "JNZ" /\ result = "Ok"
    /\ jnz_loop.fell /\ jnz_loop.start = 3 /\ jnz_loop.jumps = 2
    /\ variables[jnz_loop.variable_id] = 0

\* C27: an ADD d, s or SUB d, s whose operands were read never fails and
\* leaves vars[d] = (vars[d] +/- vars[s]) reduced modulo 2^16 into
\* -32768..32767, every other variable as it was.
C27_AddSubWrap ==
    [][(OpcodeStep /\ last_op' \in {"ADD", "SUB"}) =>
         LET d == last_arg' \div 256
             s == last_arg' % 256
             exact == IF last_op' = "ADD" THEN variables[d] + variables[s]
                      ELSE variables[d] - variables[s]
             reduced == ((exact + 32768) % 65536) - 32768
         IN /\ result' = "Ok"
            /\ variables' = [variables EXCEPT ![d] = reduced]]_vars

\* C28: UPDATE_MEM_LIST id with its operand read: id = 0 empties the
\* loaded-asset map; 1 <= id < 146 either stores entry id under key id or
\* fails in the load, the part request untouched; id >= 146 stages part id
\* when id is in 0x3E80..0x3E89 and otherwise fails with invalid-game-part,
\* the part request and the loaded-asset map as they were.
C28_MemListClassified ==
    [][(OpcodeStep /\ last_op' = "UPDATE_MEM_LIST") =>
         LET id == last_arg'
         IN /\ id = 0 =>
                 /\ result' = "Ok" /\ loaded_asset' = {}
                 /\ part_to_load' = part_to_load
            /\ (id >= 1 /\ id < 146) =>
                 /\ result' \in {"Ok", "ResourceError"}
                 /\ loaded_asset' = IF result' = "Ok" THEN loaded_asset \cup {id}
                                    ELSE loaded_asset
                 /\ part_to_load' = part_to_load
            /\ (id >= 146 /\ id \in 16000 .. 16009) =>
                 /\ result' = "Ok" /\ part_to_load' = <<"Some", id>>
                 /\ loaded_asset' = loaded_asset
            /\ (id >= 146 /\ id \notin 16000 .. 16009) =>
                 /\ result' = "InvalidGamePart"
                 /\ part_to_load' = part_to_load
                 /\ loaded_asset' = loaded_asset]_vars

\* C28 witness: with entry 1 loaded, UPDATE_MEM_LIST 0x3E8A (one past the
\* last part) has failed with invalid-game-part and the map and the part
\* request are as they were.
C28_Witness ==
    /\ last_op = "UPDATE_MEM_LIST" /\ last_arg = 16010
    /\ result = "InvalidGamePart"
    /\ loaded_asset = {1} /\ part_to_load = None

\* C29: a BLIT_FRAME_BUFFER, for every vars[0xFF] and every elapsed time,
\* asks for a sleep of max(0, vars[0xFF] * 20 - elapsed) milliseconds without
\* failing in that computation, then sets vars[0xF7] = 0 and changes no
\* other variable.
C29_BlitSleep ==
    [][(OpcodeStep /\ last_op' = "BLIT_FRAME_BUFFER") =>
         LET exact == variables[255] * 20 - slept'.elapsed
         IN /\ ~slept'.panic
            /\ slept'.ms = IF exact > 0 THEN exact ELSE 0
            /\ variables' = [variables EXCEPT ![247] = 0]]_vars

\* C30: the process that has ended after the engine loop halted on an error
\* has a status other than 0, and a process that has ended with status 0
\* ended cleanly, the loop not having failed.
C30_ExitStatus ==
    exit_status # None =>
        /\ (result # "Ok" => exit_status[2] # 0)
        /\ (exit_status[2] = 0 => result = "Ok")

\* C31: a RESET_THREADS from, to, action that completes changes channel c
\* only when from <= c <= to: action 0 sets its state to Ready, action 1 to
\* Paused, pc and next_pc as they were; any other action only stages
\* next_pc = Invalid. A channel above the running one that a RESET_THREADS
\* of the tick left Paused is skipped at its turn, one left Ready is
\* dispatched at its turn when its pc is Valid; and the commit makes every
\* channel with Invalid staged Dead.
C31_ResetThreadsRange ==
    [][ /\ (OpcodeStep /\ last_op' = "RESET_THREADS" /\ result' = "Ok") =>
             LET from == last_arg' \div 65536
                 to == (last_arg' \div 256) % 256
                 action == last_arg' % 256
             IN \A c \in Channels :
                   channels'[c] =
                      IF from <= c /\ c <= to
                      THEN (IF action = 0
                            THEN [channels[c] EXCEPT !.state = "Ready"]
                            ELSE IF action = 1
                            THEN [channels[c] EXCEPT !.state = "Paused"]
                            ELSE [channels[c] EXCEPT
                                     !.next_pc = <<"Some", <<"Invalid">>>>])
                      ELSE channels[c]
        /\ (phase = "host_frame" /\ channel_id < NUM_CHANNELS
            /\ last_op' \in {"dispatch", "skip"}) =>
             /\ reset_mark[channel_id] = "paused" => last_op' = "skip"
             /\ reset_mark[channel_id] = "ready" =>
                  (last_op' = "dispatch" <=> channels[channel_id].pc[1] = "Valid")
        /\ last_op' = "check_channel_requests" =>
             \A c \in Channels :
                channels[c].next_pc = <<"Some", <<"Invalid">>>> =>
                   channels'[c].state = "Dead" ]_vars

\* C31 witness: channel 1, seated at a Valid pc, has been set Paused by a
\* RESET_THREADS of channel 0 in this tick and its turn has come.
C31_Witness ==
    /\ phase = "host_frame" /\ channel_id = 1 /\ result = "Ok"
    /\ reset_mark[1] = "paused"
    /\ channels[1].state = "Paused" /\ channels[1].pc[1] = "Valid"

\* C32: the commit step leaves no channel with a staged next_pc; a channel
\* that had one staged gets it as its pc (Valid: Ready, Invalid: Dead); a
\* channel that had none keeps its state and pc, a Paused one staying
\* Paused; so a commit that finds nothing staged changes no channel.
C32_CommitOnce ==
    [][last_op' = "check_channel_requests" =>
         /\ \A c \in Channels :
               /\ channels'[c].next_pc = <<"None">>
               /\ IF channels[c].next_pc = <<"None">>
                  THEN /\ channels'[c].state = channels[c].state
                       /\ channels'[c].pc = channels[c].pc
                  ELSE /\ channels'[c].pc = channels[c].next_pc[2]
                       /\ channels'[c].state =
                            IF channels[c].next_pc[2][1] = "Valid" THEN "Ready"
                            ELSE "Dead"
         /\ ((\A c \in Channels : channels[c].next_pc = <<"None">>) =>
                channels' = channels)]_vars

\* C32 witness: a commit has seated channel 1 at the offset a SET_VEC
\* staged while channel 0, which had nothing staged, is still Paused.
C32_Witness ==
    /\ last_op = "check_channel_requests"
    /\ channels[1].state = "Ready" /\ channels[1].pc[1] = "Valid"
    /\ last_vec[1].writes > 0
    /\ channels[0].state = "Paused"
    /\ \A c \in Channels : channels[c].next_pc = <<"None">>

\* C33: a PAUSE_THREAD at an offset whose successor is below 0xFFFE ends
\* the slice with the channel's pc at the byte after the opcode; and a
\* channel that ended its slice so and has since been the target of no
\* SET_VEC, no RESET_THREADS and no part change is dispatched at its next
\* turn, the cursor at that byte.
C33_PauseResumes ==
    [][ /\ (OpcodeStep /\ last_op' = "PAUSE_THREAD" /\ bytecode_pos + 1 < 65534) =>
             /\ channels'[running_channel_id].pc = <<"Valid", bytecode_pos + 1>>
             /\ phase' = "host_frame"
        /\ (phase = "host_frame" /\ channel_id < NUM_CHANNELS
            /\ last_op' \in {"dispatch", "skip"}
            /\ yield_mark[channel_id] # <<"None">>) =>
             /\ last_op' = "dispatch"
             /\ running_channel_id' = channel_id
             /\ channels'[channel_id].state = "Running"
             /\ bytecode_pos' = yield_mark[channel_id][2] ]_vars

\* C33 witness: channel 0, whose slice of the tick before ended with the
\* PAUSE_THREAD at offset 4, has been dispatched again with the cursor at 5.
C33_Witness ==
    /\ last_op = "dispatch" /\ running_channel_id = 0
    /\ bytecode_pos = 5 /\ ops_done >= 2
    /\ channels[0].state = "Running"

\* Pixel px of row y lies in the byte y * HalfWidth + px / 2 of a page.
LinePixel(page, y, px) == PixelNibble(page[y * HalfWidth + (px \div 2)], px)

\* C34: a line fill on row y between endpoints x1 and x2 on the page, in
\* any of the three modes, leaves every nibble other than those of pixels
\* min(x1, x2)..max(x1, x2) of row y of the work page as it was, in
\* every page.
C34_LineFillExact ==
    [][(last_op' = "draw_line" /\ last_draw'.n # last_draw.n
        /\ result' = "Ok") =>
         LET d == last_draw'
             x_min == IF d.x1 < d.x2 THEN d.x1 ELSE d.x2
             x_max == IF d.x1 < d.x2 THEN d.x2 ELSE d.x1
         IN \A g \in 0 .. 3, y \in 0 .. HEIGHT - 1, px \in 0 .. WIDTH - 1 :
               (g = work_buffer /\ y = d.y /\ px >= x_min /\ px <= x_max)
               \/ LinePixel(pages'[g], y, px) = LinePixel(pages[g], y, px)]_vars

\* C35: a line fill in copy-from-background mode completes for every work
\* page 0..3 and makes the nibbles of pixels min(x1, x2)..max(x1, x2) of
\* its row in the work page those of page 0; with page 0 the work page no
\* page changes.
C35_LineFromBackground ==
    [][(last_op' = "draw_line" /\ last_draw'.n # last_draw.n
        /\ last_draw'.color > 16) =>
         LET d == last_draw'
             x_min == IF d.x1 < d.x2 THEN d.x1 ELSE d.x2
             x_max == IF d.x1 < d.x2 THEN d.x2 ELSE d.x1
         IN /\ result' = "Ok"
            /\ \A px \in x_min .. x_max :
                  LinePixel(pages'[work_buffer], d.y, px) = LinePixel(pages[0], d.y, px)
            /\ (work_buffer = 0 => pages' = pages)]_vars

\* C36: unpacking a finite packed entry always ends, and it ends in one of
\* two ways: the remaining-size counter reached zero or below and the output
\* is returned, or a read past the end of the entry returned an I/O error.
C36_UnpackTerminates ==
    <>(unpacker.at \in {"done", "Io"})

RECURSIVE CopyGrowing(_, _, _)
\* The output after n more copy bytes, each the byte at index `from` of the
\* output as it then stands, or 0 when that index is outside it.
CopyGrowing(output, from, n) ==
    IF n = 0 THEN output
    ELSE CopyGrowing(
             Append(output, IF from >= 0 /\ from < Len(output)
                            THEN output[from + 1] ELSE 0),
             from + 1, n - 1)

\* C37: a reference token never fails because of its offset: whatever the
\* decoded offset and the current output length, the token appends exactly
\* `length` bytes, copy byte i being the byte at index (len - offset) + i of
\* the growing output, or zero when that index is outside it.
C37_ReferenceAnyOffset ==
    [][(/\ unpacker.at = "loop"
        /\ unpacker'.at \in {"loop", "panic"}
        /\ unpacker'.token.kind = "reference"
        /\ unpacker' # unpacker)
       => /\ unpacker'.at = "loop"
          /\ unpacker'.output =
                 CopyGrowing(unpacker.output,
                             Len(unpacker.output) - unpacker'.token.code,
                             unpacker'.token.length)]_vars

Next ==
    \/ update_part
    \/ update_part_fails
    \/ check_channel_requests
    \/ host_frame
    \/ host_frame_done
    \/ run_channel_eof
    \/ run_channel_bad_opcode
    \/ op_mov_const
    \/ op_call
    \/ op_ret
    \/ op_yield_channel
    \/ op_jmp
    \/ op_set_next_pc
    \/ op_reset_threads
    \/ op_kill_channel
    \/ op_update_mem_list
    \/ op_update_mem_list_fails

Spec == Init /\ [][Next]_vars
====
